---------------------------- MODULE Spec2Model ----------------------------
(***************************************************************************)
(* Model of the weekly transfer price-correction pipeline                  *)
(* (src/src/pos_frontend/transfers/weekly_with_prices.py).                 *)
(*                                                                         *)
(* A data frame is a sequence of records (its rows, in order).  A product   *)
(* name is the sequence of its characters; origin texts and week labels    *)
(* are kept as strings and Chars gives their characters.  Every text       *)
(* operation of the code (strip, lower, upper, regex replace, substring    *)
(* search, ordering) is computed on character sequences.  Money and        *)
(* quantities are natural numbers; float("nan") is the value NaN.          *)
(***************************************************************************)
EXTENDS Integers, Sequences, FiniteSets, TLC

VARIABLES
    batch,              \* rows of the branch CSV files under batch_dir (field file: the week of the file)
    precios,            \* PT price list, as load_precios returns it
    ag_precios,         \* AG price list as load_ag_precios returns it: <<>> is None, <<rows>> a frame
    include_cedis_dest, \* args.include_cedis_dest
    pc,                 \* position in main
    wk,                 \* index of the week the loop of main is at
    df_updated,         \* df_updated of the last processed week
    all_transfers,      \* the list all_transfers of main
    price_changes,      \* the price_changes frames written so far, one per processed week
    weekly_report,      \* weekly_cost_comparison.csv
    alerts,             \* correction_summary_alerts.csv
    reapplied,          \* result of applying apply_prices to df_updated again
    call,               \* a function called on its own, outside main: its name and arguments
    ret,                \* what that call returned or raised; None before it ran
    disk,               \* the files a call under way writes: the target path and its temporary file
    proc                \* position and locals of a call that runs in several steps

vars == <<batch, precios, ag_precios, include_cedis_dest, pc, wk, df_updated,
          all_transfers, price_changes, weekly_report, alerts, reapplied, call, ret,
          disk, proc>>

\* the variables of a call that runs in several steps
stepVars == <<disk, proc>>

\* the variables of main
mainVars == <<batch, precios, ag_precios, include_cedis_dest, pc, wk, df_updated,
              all_transfers, price_changes, weekly_report, alerts, reapplied>>

-----------------------------------------------------------------------------
(* Bounds of the model *)

MaxLines == 1          \* rows in the batch, specification Spec
MaxReportLines == 2    \* rows in the batch, specification SpecReports
MaxPrecios == 2        \* rows of the PT price list
MaxNameLen == 3        \* characters of a generated product name, specification SpecNames

\* float("nan"): every price, quantity and cost of the model is >= 0
NaN == 0 - 1

None == << >>
Some(x) == <<x>>

-----------------------------------------------------------------------------
(* Texts *)

\* the characters of the texts, in code point order
Alphabet ==
    <<" ", "*", "-", "0", "1", "2", "3", "4", "5", "6", "7", "8", "9",
      "A", "B", "C", "D", "E", "F", "G", "H", "I", "J", "K", "L", "M", "N", "O", "P",
      "Q", "R", "S", "T", "U", "V", "W", "X", "Y", "Z", "_",
      "a", "b", "c", "d", "e", "f", "g", "h", "i", "j", "k", "l", "m", "n", "o", "p",
      "q", "r", "s", "t", "u", "v", "w", "x", "y", "z">>

\* ord(c), as the position in Alphabet
CodeOf == [c \in {Alphabet[i] : i \in 1..Len(Alphabet)} |->
              CHOOSE i \in 1..Len(Alphabet) : Alphabet[i] = c] @@ << >>
Code(c) == CodeOf[c]

IsUpper(c) == Code(c) >= Code("A") /\ Code(c) <= Code("Z")
IsLower(c) == Code(c) >= Code("a") /\ Code(c) <= Code("z")
IsSpace(c) == c = " "

\* the texts of the model, each with its characters
CharsOf ==
       ("Mayones de Panem *" :> <<"M", "a", "y", "o", "n", "e", "s", " ", "d", "e", " ", "P", "a", "n", "e", "m", " ", "*">>)
    @@ ("Mayonesa de Panem *" :> <<"M", "a", "y", "o", "n", "e", "s", "a", " ", "d", "e", " ", "P", "a", "n", "e", "m", " ", "*">>)
    @@ (" MAYONESA DE PANEM* " :> <<" ", "M", "A", "Y", "O", "N", "E", "S", "A", " ", "D", "E", " ", "P", "A", "N", "E", "M", "*", " ">>)
    @@ ("MAYONESA DE PANEM*" :> <<"M", "A", "Y", "O", "N", "E", "S", "A", " ", "D", "E", " ", "P", "A", "N", "E", "M", "*">>)
    @@ ("Pan" :> <<"P", "a", "n">>)
    @@ ("Leche" :> <<"L", "e", "c", "h", "e">>)
    @@ ("mayones de panem *" :> <<"m", "a", "y", "o", "n", "e", "s", " ", "d", "e", " ", "p", "a", "n", "e", "m", " ", "*">>)
    @@ ("mayonesa de panem *" :> <<"m", "a", "y", "o", "n", "e", "s", "a", " ", "d", "e", " ", "p", "a", "n", "e", "m", " ", "*">>)
    @@ ("sopa de tomate*" :> <<"s", "o", "p", "a", " ", "d", "e", " ", "t", "o", "m", "a", "t", "e", "*">>)
    @@ ("sopa de tomate *" :> <<"s", "o", "p", "a", " ", "d", "e", " ", "t", "o", "m", "a", "t", "e", " ", "*">>)
    @@ ("ALMACEN PRODUCTO TERMINADO" :> <<"A", "L", "M", "A", "C", "E", "N", " ", "P", "R", "O", "D", "U", "C", "T", "O", " ", "T", "E", "R", "M", "I", "N", "A", "D", "O">>)
    @@ ("ALMACEN GENERAL" :> <<"A", "L", "M", "A", "C", "E", "N", " ", "G", "E", "N", "E", "R", "A", "L">>)
    @@ ("ALMACEN GENERAL DE PRODUCTO TERMINADO" :> <<"A", "L", "M", "A", "C", "E", "N", " ", "G", "E", "N", "E", "R", "A", "L", " ", "D", "E", " ", "P", "R", "O", "D", "U", "C", "T", "O", " ", "T", "E", "R", "M", "I", "N", "A", "D", "O">>)
    @@ ("CEDIS" :> <<"C", "E", "D", "I", "S">>)
    @@ ("PRODUCTO TERMINADO" :> <<"P", "R", "O", "D", "U", "C", "T", "O", " ", "T", "E", "R", "M", "I", "N", "A", "D", "O">>)
    @@ ("2026-01-26_2026-02-01" :> <<"2", "0", "2", "6", "-", "0", "1", "-", "2", "6", "_", "2", "0", "2", "6", "-", "0", "2", "-", "0", "1">>)
    @@ ("2026-02-02_2026-02-07" :> <<"2", "0", "2", "6", "-", "0", "2", "-", "0", "2", "_", "2", "0", "2", "6", "-", "0", "2", "-", "0", "7">>)
    @@ ("NUMEROS" :> <<"N", "U", "M", "E", "R", "O", "S">>)
    @@ ("KAVIA-AG" :> <<"K", "A", "V", "I", "A", "-", "A", "G">>)
    @@ ("KAVIA-PT-R" :> <<"K", "A", "V", "I", "A", "-", "P", "T", "-", "R">>)
    @@ ("KAVIA-PT-W" :> <<"K", "A", "V", "I", "A", "-", "P", "T", "-", "W">>)
    @@ ("PV-AG" :> <<"P", "V", "-", "A", "G">>)
    @@ ("ZZ-PT-R" :> <<"Z", "Z", "-", "P", "T", "-", "R">>)
    @@ ("NOTAS" :> <<"N", "O", "T", "A", "S">>)
    @@ ("-" :> <<"-">>)
    @@ ("-PT-W" :> <<"-", "P", "T", "-", "W">>)
    @@ ("-AG" :> <<"-", "A", "G">>)
    @@ ("-PT-R" :> <<"-", "P", "T", "-", "R">>)
    @@ ("Orden" :> <<"O", "r", "d", "e", "n">>)
    @@ ("Almac" :> <<"A", "l", "m", "a", "c">>)
    @@ ("origen" :> <<"o", "r", "i", "g", "e", "n">>)
    @@ ("destino" :> <<"d", "e", "s", "t", "i", "n", "o">>)
    @@ ("Fecha" :> <<"F", "e", "c", "h", "a">>)
    @@ ("Cantidad" :> <<"C", "a", "n", "t", "i", "d", "a", "d">>)
    @@ ("Departamento" :> <<"D", "e", "p", "a", "r", "t", "a", "m", "e", "n", "t", "o">>)
    @@ ("Producto" :> <<"P", "r", "o", "d", "u", "c", "t", "o">>)
    @@ ("Costo" :> <<"C", "o", "s", "t", "o">>)
    @@ ("Almacen origen" :> <<"A", "l", "m", "a", "c", "e", "n", " ", "o", "r", "i", "g", "e", "n">>)
    @@ ("Sucursal destino" :> <<"S", "u", "c", "u", "r", "s", "a", "l", " ", "d", "e", "s", "t", "i", "n", "o">>)
    @@ ("nan" :> <<"n", "a", "n">>)
    @@ ("Panem - " :> <<"P", "a", "n", "e", "m", " ", "-", " ">>)
    @@ ("KAVIA" :> <<"K", "A", "V", "I", "A">>)
    @@ ("PV" :> <<"P", "V">>)
    @@ ("QIN" :> <<"Q", "I", "N">>)
    @@ ("Q" :> <<"Q">>)
    @@ ("HZ" :> <<"H", "Z">>)
    @@ ("CARRETA" :> <<"C", "A", "R", "R", "E", "T", "A">>)
    @@ ("C" :> <<"C">>)
    @@ ("NATIVA" :> <<"N", "A", "T", "I", "V", "A">>)
    @@ ("N" :> <<"N">>)
    @@ ("CC" :> <<"C", "C">>)
    @@ ("Panem - Hotel Kavia N" :> <<"P", "a", "n", "e", "m", " ", "-", " ", "H", "o", "t", "e", "l", " ", "K", "a", "v", "i", "a", " ", "N">>)
    @@ ("Panem - Punto Valle" :> <<"P", "a", "n", "e", "m", " ", "-", " ", "P", "u", "n", "t", "o", " ", "V", "a", "l", "l", "e">>)
    @@ ("Panem - Plaza QIN N" :> <<"P", "a", "n", "e", "m", " ", "-", " ", "P", "l", "a", "z", "a", " ", "Q", "I", "N", " ", "N">>)
    @@ ("Panem - Hospital Zambrano N" :> <<"P", "a", "n", "e", "m", " ", "-", " ", "H", "o", "s", "p", "i", "t", "a", "l", " ", "Z", "a", "m", "b", "r", "a", "n", "o", " ", "N">>)
    @@ ("Panem - La Carreta N" :> <<"P", "a", "n", "e", "m", " ", "-", " ", "L", "a", " ", "C", "a", "r", "r", "e", "t", "a", " ", "N">>)
    @@ ("Panem - Plaza Nativa" :> <<"P", "a", "n", "e", "m", " ", "-", " ", "P", "l", "a", "z", "a", " ", "N", "a", "t", "i", "v", "a">>)
    @@ ("Panem - Credi Club" :> <<"P", "a", "n", "e", "m", " ", "-", " ", "C", "r", "e", "d", "i", " ", "C", "l", "u", "b">>)
    @@ (" almacen general " :> <<" ", "a", "l", "m", "a", "c", "e", "n", " ", "g", "e", "n", "e", "r", "a", "l", " ">>)
    @@ ("PAN" :> <<"P", "A", "N">>)
    @@ ("ab" :> <<"a", "b">>)
    @@ ("2026-02-05" :> <<"2", "0", "2", "6", "-", "0", "2", "-", "0", "5">>)
    @@ ("9980-11588-2609294" :> <<"9", "9", "8", "0", "-", "1", "1", "5", "8", "8", "-", "2", "6", "0", "9", "2", "9", "4">>)
    @@ ("9980-11588-2609295" :> <<"9", "9", "8", "0", "-", "1", "1", "5", "8", "8", "-", "2", "6", "0", "9", "2", "9", "5">>)
    @@ ("9980-11588-2609296" :> <<"9", "9", "8", "0", "-", "1", "1", "5", "8", "8", "-", "2", "6", "0", "9", "2", "9", "6">>)
    @@ ("9982-11588-2607562" :> <<"9", "9", "8", "2", "-", "1", "1", "5", "8", "8", "-", "2", "6", "0", "7", "5", "6", "2">>)
    @@ ("9982-11588-2607690" :> <<"9", "9", "8", "2", "-", "1", "1", "5", "8", "8", "-", "2", "6", "0", "7", "6", "9", "0">>)
    @@ ("1001" :> <<"1", "0", "0", "1">>)
    @@ ("2026-02-02" :> <<"2", "0", "2", "6", "-", "0", "2", "-", "0", "2">>)
    @@ ("2026-02-08" :> <<"2", "0", "2", "6", "-", "0", "2", "-", "0", "8">>)
    @@ ("No" :> <<"N", "o">>)
    @@ ("Unidad" :> <<"U", "n", "i", "d", "a", "d">>)
    @@ ("Total" :> <<"T", "o", "t", "a", "l">>)
    @@ ("Sucursal" :> <<"S", "u", "c", "u", "r", "s", "a", "l">>)
    @@ (" k " :> <<" ", "k", " ">>)
    @@ ("K" :> <<"K">>)
    @@ ("sucursal" :> <<"s", "u", "c", "u", "r", "s", "a", "l">>)
    @@ ("branch" :> <<"b", "r", "a", "n", "c", "h">>)
    @@ ("suc" :> <<"s", "u", "c">>)
    @@ ("total" :> <<"t", "o", "t", "a", "l">>)
    @@ ("costo" :> <<"c", "o", "s", "t", "o">>)
    @@ ("suma" :> <<"s", "u", "m", "a">>)
    @@ ("inf" :> <<"i", "n", "f">>)
    @@ ("infinity" :> <<"i", "n", "f", "i", "n", "i", "t", "y">>)
    @@ ("NOMBRE WANSOFT" :> <<"N", "O", "M", "B", "R", "E", " ", "W", "A", "N", "S", "O", "F", "T">>)
    @@ ("PRECIO UNITARIO" :> <<"P", "R", "E", "C", "I", "O", " ", "U", "N", "I", "T", "A", "R", "I", "O">>)
    @@ ("PRECIO DRIVE" :> <<"P", "R", "E", "C", "I", "O", " ", "D", "R", "I", "V", "E">>)
    @@ ("Precio unitario" :> <<"P", "r", "e", "c", "i", "o", " ", "u", "n", "i", "t", "a", "r", "i", "o">>)
    @@ ("UNIDAD" :> <<"U", "N", "I", "D", "A", "D">>)
    @@ ("PRESENTACION" :> <<"P", "R", "E", "S", "E", "N", "T", "A", "C", "I", "O", "N">>)
    @@ ("present" :> <<"p", "r", "e", "s", "e", "n", "t">>)
    @@ ("PZ" :> <<"P", "Z">>)
    @@ ("KG" :> <<"K", "G">>)
    @@ ("LT" :> <<"L", "T">>)
    @@ (" pz " :> <<" ", "p", "z", " ">>)
    @@ (" Pan " :> <<" ", "P", "a", "n", " ">>)
    @@ (" 9980-11588-2609294 " :> <<" ", "9", "9", "8", "0", "-", "1", "1", "5", "8", "8", "-", "2", "6", "0", "9", "2", "9", "4", " ">>)
    @@ ("Pan Dulce" :> <<"P", "a", "n", " ", "D", "u", "l", "c", "e">>)
    @@ ("Pan  Dulce" :> <<"P", "a", "n", " ", " ", "D", "u", "l", "c", "e">>)
    @@ ("pan" :> <<"p", "a", "n">>)
    @@ ("Ajo" :> <<"A", "j", "o">>)

\* the character sequence of a text of the model
Chars(s) == CharsOf[s]

\* str.lower() and str.upper(), character by character
LowerChar(c) == IF IsUpper(c) THEN Alphabet[Code(c) + (Code("a") - Code("A"))] ELSE c
UpperChar(c) == IF IsLower(c) THEN Alphabet[Code(c) - (Code("a") - Code("A"))] ELSE c
Lower(t) == [i \in 1..Len(t) |-> LowerChar(t[i])]
Upper(t) == [i \in 1..Len(t) |-> UpperChar(t[i])]

\* str.rstrip(), str.lstrip(), str.strip()
RECURSIVE RStrip(_)
RStrip(t) == IF t # << >> /\ IsSpace(t[Len(t)]) THEN RStrip(SubSeq(t, 1, Len(t) - 1)) ELSE t
RECURSIVE LStrip(_)
LStrip(t) == IF t # << >> /\ IsSpace(Head(t)) THEN LStrip(Tail(t)) ELSE t
Strip(t) == LStrip(RStrip(t))

\* str.contains(sub) for a literal sub
Contains(t, sub) ==
    \E i \in 1..(Len(t) - Len(sub) + 1) : SubSeq(t, i, i + Len(sub) - 1) = sub

\* t < u in the order of Python strings (code points, then length)
RECURSIVE TextLess(_, _)
TextLess(t, u) ==
    IF u = << >> THEN FALSE
    ELSE IF t = << >> THEN TRUE
    ELSE IF Head(t) # Head(u) THEN Code(Head(t)) < Code(Head(u))
    ELSE TextLess(Tail(t), Tail(u))

-----------------------------------------------------------------------------
(* Product keys *)

\* re.sub(r"\s*\*$", " *", t): a text ending in "*" loses the asterisk and the
\* whitespace before it and gets " *"; any other text has no match
\* the replacement without the \s* of the pattern: the whitespace before the
\* asterisk stays
ReplaceTrailingAsterisk_keeps_whitespace(t) ==
    IF t # << >> /\ t[Len(t)] = "*"
    THEN SubSeq(t, 1, Len(t) - 1) \o <<" ", "*">>
    ELSE t

ReplaceTrailingAsterisk(t) ==
    IF t # << >> /\ t[Len(t)] = "*"
    THEN RStrip(SubSeq(t, 1, Len(t) - 1)) \o <<" ", "*">>
    ELSE t

normalize_producto_for_match(t) == ReplaceTrailingAsterisk(Lower(Strip(t)))

\* variant -> canonical
PRODUCTO_ALIASES ==
    << <<"mayones de panem *", "mayonesa de panem *">>,
       <<"sopa de tomate*", "sopa de tomate *">> >>

\* PRODUCTO_ALIASES.get(x, x)
AliasGet(x) ==
    IF \E i \in 1..Len(PRODUCTO_ALIASES) : Chars(PRODUCTO_ALIASES[i][1]) = x
    THEN Chars(PRODUCTO_ALIASES[CHOOSE i \in 1..Len(PRODUCTO_ALIASES) :
                                   Chars(PRODUCTO_ALIASES[i][1]) = x][2])
    ELSE x

\* the names over a few characters that have at most n of them
NameChars == {"a", "A", " ", "*"}
ShortNames(n) == UNION {[1..k -> NameChars] : k \in 1..n}

\* the product names and origin texts of the model
Productos ==
    {Chars("Mayones de Panem *"), Chars("Mayonesa de Panem *"),
     Chars(" MAYONESA DE PANEM* "), Chars("MAYONESA DE PANEM*"),
     Chars("Pan"), Chars("Leche"), Chars("Pan Dulce"), Chars("Pan  Dulce")}
        \cup ShortNames(MaxNameLen)
Origins ==
    {"ALMACEN PRODUCTO TERMINADO", "ALMACEN GENERAL",
     "ALMACEN GENERAL DE PRODUCTO TERMINADO", "CEDIS"}

\* column _Producto_norm of a transfer row or of a price list row
ProductoNorm(producto) == normalize_producto_for_match(producto)
\* column _Producto_lookup of a transfer row
ProductoLookup(producto) == AliasGet(ProductoNorm(producto))

\* the origin text the origin class is read from (column _Almacen_origen)
AlmacenOrigenUpper(origen) == Upper(Strip(Chars(origen)))
IsPT(origen) == Contains(AlmacenOrigenUpper(origen), Chars("PRODUCTO TERMINADO"))
IsAG(origen) == Contains(AlmacenOrigenUpper(origen), Chars("ALMACEN GENERAL"))

\* the columns above, computed once per text (@@ keeps each as a table)
NormOf == [p \in Productos |-> ProductoNorm(p)] @@ << >>
LookupOf == [p \in Productos |-> ProductoLookup(p)] @@ << >>
IsPTOf == [o \in Origins |-> IsPT(o)] @@ << >>
IsAGOf == [o \in Origins |-> IsAG(o)] @@ << >>

-----------------------------------------------------------------------------
(* apply_prices *)

\* the prices a left merge on the key joins to one row: the price of every row
\* of the price list whose normalized Producto is the key, in list order, or
\* one missing price when there is none
MatchPrices(key, lista) ==
    LET hits == SelectSeq(lista, LAMBDA e :
                    NormOf[e.Producto] = key)
    IN  IF hits = << >> THEN <<NaN>>
        ELSE [k \in 1..Len(hits) |-> hits[k].Precio_unitario]

\* how="left" merge of the rows with a price list on _Producto_lookup: each row
\* once per joined price, in row order; the price goes to column `col`
RECURSIVE MergeLeft(_, _, _)
MergeLeft(rows, lista, col) ==
    IF rows = << >> THEN << >>
    ELSE LET r  == Head(rows)
             ps == MatchPrices(LookupOf[r.Producto], lista)
         IN  [k \in 1..Len(ps) |-> r @@ (col :> ps[k])]
             \o MergeLeft(Tail(rows), lista, col)

\* the rows after both merges, with columns Precio_PT and Precio_AG
Merged(df, pt, ag) ==
    LET numbered == [i \in 1..Len(df) |-> ("src" :> i) @@ df[i]]
        m1 == MergeLeft(numbered, pt, "Precio_PT")
    IN  IF ag # None /\ ag[1] # << >>
        THEN MergeLeft(m1, ag[1], "Precio_AG")
        ELSE [i \in 1..Len(m1) |-> m1[i] @@ ("Precio_AG" :> NaN)]

\* the PT mask without the origin test
pt_matched_any_origin(m) == m.Precio_PT # NaN

pt_matched(m) == IsPTOf[m.Almacen_origen] /\ m.Precio_PT # NaN
ag_matched(m) == IsAGOf[m.Almacen_origen] /\ m.Precio_AG # NaN

\* Costo unitario of a merged row after the two masked assignments
NewCostoUnitario(m) ==
    LET after_pt == IF pt_matched(m) THEN m.Precio_PT ELSE m.Costo_unitario
    IN  IF ag_matched(m) THEN m.Precio_AG ELSE after_pt

\* Costo recomputed on the matched rows only
PricedRow_matched_only(m) ==
    LET cu == NewCostoUnitario(m)
        costo == IF pt_matched(m) \/ ag_matched(m) THEN m.Cantidad * cu ELSE m.Costo
    IN  [f \in (DOMAIN m \ {"Precio_PT", "Precio_AG"})
                 \cup {"Costo_before", "Costo_after"} |->
            CASE f = "Costo_before" -> m.Costo
              [] f = "Costo_unitario" -> cu
              [] f = "Costo" -> costo
              [] f = "Costo_after" -> costo
              [] OTHER -> m[f]]

\* the columns apply_prices sets on a merged row
PricedRow(m) ==
    LET cu == NewCostoUnitario(m)
        costo == m.Cantidad * cu
    IN  [f \in (DOMAIN m \ {"Precio_PT", "Precio_AG"})
                 \cup {"Costo_before", "Costo_after"} |->
            CASE f = "Costo_before" -> m.Costo
              [] f = "Costo_unitario" -> cu
              [] f = "Costo" -> costo
              [] f = "Costo_after" -> costo
              [] OTHER -> m[f]]

\* apply_prices(df, precios, ag_precios)[0].  The field src of an output row is
\* the position of the input row it was made from (not a column of the frame).
apply_prices(df, pt, ag) ==
    IF df = << >> THEN df
    ELSE LET merged == Merged(df, pt, ag)
         IN  [i \in 1..Len(merged) |-> PricedRow(merged[i])]

-----------------------------------------------------------------------------
(* main: the week loop *)

\* the weeks main iterates over (the last two entries of WEEK_RANGES)
WeekLabels == <<"2026-01-26_2026-02-01", "2026-02-02_2026-02-07">>
NumWeeks == Len(WeekLabels)

\* read_and_concat_transfers(collect_branch_csv_paths(batch_dir, start, end)):
\* the rows of the files of week w, without the file they came from
read_and_concat_transfers(w) ==
    LET rows == SelectSeq(batch, LAMBDA r : r.file = w)
    IN  [i \in 1..Len(rows) |-> [f \in DOMAIN rows[i] \ {"file"} |-> rows[i][f]]]

\* df_updated["Week"] = f"{start_str}_{end_str}"
WithWeek(df, w) == [i \in 1..Len(df) |-> df[i] @@ ("Week" :> WeekLabels[w])]

RECURSIVE Concat(_)
Concat(frames) == IF frames = << >> THEN << >> ELSE Head(frames) \o Concat(Tail(frames))

\* for ... in weeks: df.empty -> continue
SkipEmptyWeek ==
    /\ pc = "fetch"
    /\ wk <= NumWeeks
    /\ read_and_concat_transfers(wk) = << >>
    /\ wk' = wk + 1
    /\ UNCHANGED <<batch, precios, ag_precios, include_cedis_dest, pc, df_updated,
                   all_transfers, price_changes, weekly_report, alerts, reapplied,
                   call, ret, stepVars>>

\* df_updated, _ = apply_prices(df, precios, ag_precios); tag; all_transfers.append
ApplyPricesStep ==
    /\ pc = "fetch"
    /\ wk <= NumWeeks
    /\ read_and_concat_transfers(wk) # << >>
    /\ df_updated' = WithWeek(apply_prices(read_and_concat_transfers(wk), precios, ag_precios), wk)
    /\ all_transfers' = Append(all_transfers, df_updated')
    /\ pc' = "applied"
    /\ UNCHANGED <<batch, precios, ag_precios, include_cedis_dest, wk,
                   price_changes, weekly_report, alerts, reapplied,
                   call, ret, stepVars>>

\* a second apply_prices call on the output of the first, same price lists
ReapplyPrices ==
    /\ pc = "done"
    /\ reapplied = None
    /\ df_updated # << >>
    /\ reapplied' = Some(apply_prices(df_updated, precios, ag_precios))
    /\ UNCHANGED <<batch, precios, ag_precios, include_cedis_dest, pc, wk, df_updated,
                   all_transfers, price_changes, weekly_report, alerts,
                   call, ret, stepVars>>

-----------------------------------------------------------------------------
(* Reports *)

\* a report frame: its column names and its rows
Frame(cols, rows) == [columns |-> cols, rows |-> rows]
\* pd.DataFrame()
EmptyFrame == Frame(<< >>, << >>)

\* a float quotient n / d kept exact; den = 0 is NaN (x / NaN, x / 0 after
\* .replace(0, nan))
Quot(n, d) == [num |-> n, den |-> d]
IsNaNQuot(q) == q.den = 0
Abs(x) == IF x < 0 THEN 0 - x ELSE x
\* |q| > h and |q| <= h as float comparisons: both are False on NaN
AbsGreater(q, h) == ~IsNaNQuot(q) /\ Abs(q.num) > h * Abs(q.den)
AbsAtMost(q, h) == ~IsNaNQuot(q) /\ Abs(q.num) <= h * Abs(q.den)

RECURSIVE SumOf(_, _)
SumOf(rows, col) == IF rows = << >> THEN 0 ELSE Head(rows)[col] + SumOf(Tail(rows), col)

\* rows ordered by (Producto, Almacen_origen), as sort_values and groupby order them
KeyLess(a, b) ==
    \/ TextLess(a.Producto, b.Producto)
    \/ /\ a.Producto = b.Producto
       /\ TextLess(Chars(a.Almacen_origen), Chars(b.Almacen_origen))

\* stable insertion of row r into a sequence sorted by KeyLess
RECURSIVE InsertByKey(_, _)
InsertByKey(r, sorted) ==
    IF sorted = << >> THEN <<r>>
    ELSE IF KeyLess(r, Head(sorted)) THEN <<r>> \o sorted
    ELSE <<Head(sorted)>> \o InsertByKey(r, Tail(sorted))

RECURSIVE SortByKey(_)
SortByKey(rows) ==
    IF rows = << >> THEN << >>
    ELSE InsertByKey(rows[Len(rows)], SortByKey(SubSeq(rows, 1, Len(rows) - 1)))

\* the filter comparing the recomputed Costo with Costo_after
Changed_by_costo(df) == SelectSeq(df, LAMBDA r : r.Costo # r.Costo_after)

\* df[df["Costo_before"] != df["Costo_after"]]
Changed(df) == SelectSeq(df, LAMBDA r : r.Costo_before # r.Costo_after)

PriceChangeColumns ==
    <<"Producto", "Almacen_origen", "Cantidad", "Costo_unitario_before",
      "Costo_unitario_after", "Costo_before", "Costo_after">>

\* the optional columns of df that compute_weekly_price_changes appends
OptionalColumns(df) ==
    SelectSeq(<<"Sucursal_destino", "Orden">>, LAMBDA c : c \in DOMAIN df[1])

PriceChangeRow(r, cols) ==
    [c \in {cols[i] : i \in 1..Len(cols)} |->
        CASE c = "Costo_unitario_before" ->
                Quot(r.Costo_before, r.Cantidad)
          [] c = "Costo_unitario_after" -> r.Costo_unitario
          [] OTHER -> r[c]]

compute_weekly_price_changes(df) ==
    IF df = << >> \/ Changed(df) = << >>
    THEN Frame(PriceChangeColumns, << >>)
    ELSE LET cols == PriceChangeColumns \o OptionalColumns(df)
             changed == Changed(df)
         IN  Frame(cols, SortByKey([i \in 1..Len(changed) |->
                                       PriceChangeRow(changed[i], cols)]))

\* price_changes = compute_weekly_price_changes(df_updated); to_csv; next week
PriceChangesStep ==
    /\ pc = "applied"
    /\ price_changes' = Append(price_changes, compute_weekly_price_changes(df_updated))
    /\ wk' = wk + 1
    /\ pc' = "fetch"
    /\ UNCHANGED <<batch, precios, ag_precios, include_cedis_dest, df_updated,
                   all_transfers, weekly_report, alerts, reapplied,
                   call, ret, stepVars>>


\* the thresholds main passes to compute_price_change_alerts
PCT_HIGH == 50
PCT_MEDIUM == 25

SameGroup(a, b) == a.Producto = b.Producto /\ a.Almacen_origen = b.Almacen_origen

\* groupby(["Producto", "Almacen_origen"]): the first row of every group, in key order
GroupHeads(rows) ==
    SortByKey(SelectSeq([i \in 1..Len(rows) |-> rows[i] @@ ("pos" :> i)],
                        LAMBDA r : \A j \in 1..(r.pos - 1) : ~SameGroup(rows[j], r)))

\* the MEDIUM mask without its upper limit
AlertLabel_medium_unbounded(pct, pct_high, pct_medium) ==
    LET a1 == IF AbsGreater(pct, pct_high) THEN "HIGH" ELSE ""
    IN  IF AbsGreater(pct, pct_medium) THEN "MEDIUM" ELSE a1

\* agg.loc[pct_abs > pct_high] = "HIGH", then
\* agg.loc[(pct_abs > pct_medium) & (pct_abs <= pct_high)] = "MEDIUM", on Alert = ""
AlertLabel(pct, pct_high, pct_medium) ==
    LET a1 == IF AbsGreater(pct, pct_high) THEN "HIGH" ELSE ""
    IN  IF AbsGreater(pct, pct_medium) /\ AbsAtMost(pct, pct_high) THEN "MEDIUM" ELSE a1

\* one row of agg: the sums of a group, its unit prices, the change and the label
AlertRow(head, rows, pct_high, pct_medium) ==
    LET grp    == SelectSeq(rows, LAMBDA r : SameGroup(r, head))
        qty    == SumOf(grp, "Cantidad")
        before == SumOf(grp, "Costo_before")
        after  == SumOf(grp, "Costo_after")
        unit   == grp[1].Costo_unitario
        \* Weighted_avg_unit_before = before / qty; Pct_change_unit =
        \* (unit - w) / w * 100 = 100 * (unit * qty - before) / before,
        \* NaN when qty = 0 or w = 0
        pct    == IF qty = 0 \/ before = 0 THEN Quot(0, 0)
                  ELSE Quot(100 * (unit * qty - before), before)
    IN  [Producto |-> head.Producto,
         Almacen_origen |-> head.Almacen_origen,
         Total_Cantidad |-> qty,
         Weighted_avg_unit_before |-> Quot(before, qty),
         Unit_after |-> unit,
         Pct_change_unit |-> pct,
         Costo_before_sum |-> before,
         Costo_after_sum |-> after,
         Cost_diff |-> after - before,
         Alert |-> AlertLabel(pct, pct_high, pct_medium)]

\* a goes before b in sort_values("Pct_change_unit", key=abs, ascending=False):
\* larger |pct| first, NaN last
PctBefore(a, b) ==
    LET p == a.Pct_change_unit
        q == b.Pct_change_unit
    IN  /\ ~IsNaNQuot(p)
        /\ \/ IsNaNQuot(q)
           \/ Abs(p.num) * Abs(q.den) > Abs(q.num) * Abs(p.den)

RECURSIVE InsertByPct(_, _)
InsertByPct(r, sorted) ==
    IF sorted = << >> THEN <<r>>
    ELSE IF PctBefore(r, Head(sorted)) THEN <<r>> \o sorted
    ELSE <<Head(sorted)>> \o InsertByPct(r, Tail(sorted))

RECURSIVE SortByPct(_)
SortByPct(rows) ==
    IF rows = << >> THEN << >>
    ELSE InsertByPct(rows[Len(rows)], SortByPct(SubSeq(rows, 1, Len(rows) - 1)))

AlertColumns ==
    <<"Producto", "Almacen_origen", "Total_Cantidad", "Weighted_avg_unit_before",
      "Unit_after", "Pct_change_unit", "Costo_before_sum", "Costo_after_sum",
      "Cost_diff", "Alert">>

compute_price_change_alerts(df, pct_high, pct_medium) ==
    IF df = << >> \/ Changed(df) = << >>
    THEN EmptyFrame
    ELSE LET changed == Changed(df)
             heads == GroupHeads(changed)
         IN  Frame(AlertColumns,
                   SortByPct([i \in 1..Len(heads) |->
                                 AlertRow(heads[i], changed, pct_high, pct_medium)]))

CEDIS == "Panem - CEDIS"

\* the exclusion never applied
WorkRows_all(df, exclude_cedis_dest) == df

\* work[work["Sucursal destino"] != "Panem - CEDIS"] when exclude_cedis_dest
WorkRows(df, exclude_cedis_dest) ==
    IF exclude_cedis_dest
    THEN SelectSeq(df, LAMBDA r : r.Sucursal_destino # CEDIS)
    ELSE df

\* the weeks of the rows, in the order groupby("Week") puts them
RECURSIVE InsertWeek(_, _)
InsertWeek(w, sorted) ==
    IF sorted = << >> THEN <<w>>
    ELSE IF w = Head(sorted) THEN sorted
    ELSE IF TextLess(Chars(w), Chars(Head(sorted))) THEN <<w>> \o sorted
    ELSE <<Head(sorted)>> \o InsertWeek(w, Tail(sorted))

RECURSIVE WeeksOf(_)
WeeksOf(rows) ==
    IF rows = << >> THEN << >>
    ELSE InsertWeek(rows[Len(rows)].Week, WeeksOf(SubSeq(rows, 1, Len(rows) - 1)))

WeeklyRow(w, rows) ==
    LET grp == SelectSeq(rows, LAMBDA r : r.Week = w)
        before == SumOf(grp, "Costo_before")
        after == SumOf(grp, "Costo_after")
    IN  [Week |-> w,
         Total_Before |-> before,
         Total_After |-> after,
         Difference |-> after - before,
         Pct_Change |-> Quot((after - before) * 100, before)]

compute_weekly_cost_comparison(df, exclude_cedis_dest) ==
    IF df = << >> THEN EmptyFrame
    ELSE LET work == WorkRows(df, exclude_cedis_dest)
             weeks == WeeksOf(work)
         IN  Frame(<<"Week", "Total_Before", "Total_After", "Difference", "Pct_Change">>,
                   [i \in 1..Len(weeks) |-> WeeklyRow(weeks[i], work)])

\* combined = pd.concat(all_transfers, ignore_index=True)
combined == Concat(all_transfers)

\* the week loop is over
EndLoop ==
    /\ pc = "fetch"
    /\ wk > NumWeeks
    /\ pc' = IF all_transfers # << >> THEN "reports" ELSE "done"
    /\ UNCHANGED <<batch, precios, ag_precios, include_cedis_dest, wk, df_updated,
                   all_transfers, price_changes, weekly_report, alerts, reapplied,
                   call, ret, stepVars>>

\* weekly_report = compute_weekly_cost_comparison(combined, exclude_cedis)
WeeklyReportStep ==
    /\ pc = "reports"
    /\ weekly_report' = compute_weekly_cost_comparison(combined, ~include_cedis_dest)
    /\ pc' = "alerts"
    /\ UNCHANGED <<batch, precios, ag_precios, include_cedis_dest, wk, df_updated,
                   all_transfers, price_changes, alerts, reapplied,
                   call, ret, stepVars>>

\* alerts = compute_price_change_alerts(combined, pct_high=50, pct_medium=25)
AlertsStep ==
    /\ pc = "alerts"
    /\ alerts' = compute_price_change_alerts(combined, PCT_HIGH, PCT_MEDIUM)
    /\ pc' = "done"
    /\ UNCHANGED <<batch, precios, ag_precios, include_cedis_dest, wk, df_updated,
                   all_transfers, price_changes, weekly_report, reapplied,
                   call, ret, stepVars>>

Next ==
    \/ SkipEmptyWeek
    \/ ApplyPricesStep
    \/ PriceChangesStep
    \/ EndLoop
    \/ WeeklyReportStep
    \/ AlertsStep
    \/ ReapplyPrices

-----------------------------------------------------------------------------
(* Inputs *)

SeqsUpTo(S, n) == UNION {[1..k -> S] : k \in 0..n}

\* price lists: rows with distinct Producto (the loaders drop duplicates of the
\* stripped Producto text), at most n of them
PriceLists(names, prices, n) ==
    {l \in SeqsUpTo([Producto : names, Precio_unitario : prices], n) :
        \A i, j \in 1..Len(l) : l[i].Producto = l[j].Producto => i = j}

\* no call that runs in several steps is under way
StepIdle ==
    /\ disk = << >>
    /\ proc = << >>

\* state of main after argument parsing and the loading of the price lists
InitWith(rows, pts, ags) ==
    /\ batch \in rows
    /\ precios \in pts
    /\ ag_precios \in ags
    /\ include_cedis_dest \in BOOLEAN
    /\ pc = "fetch"
    /\ wk = 1
    /\ df_updated = << >>
    /\ all_transfers = << >>
    /\ price_changes = << >>
    /\ weekly_report = EmptyFrame
    /\ alerts = EmptyFrame
    /\ reapplied = None
    /\ call = [fn |-> "main"]
    /\ ret = None
    /\ StepIdle


\* transfer rows; the recorded Costo is Cantidad x Costo unitario plus one of
\* the `extras` (0: the product itself)
TransferRows(names, origins, dests, qtys, units, extras, files) ==
    {[Producto |-> n, Almacen_origen |-> o, Sucursal_destino |-> d, Cantidad |-> q,
      Costo_unitario |-> u, Costo |-> q * u + x, file |-> f] :
        n \in names, o \in origins, d \in dests, q \in qtys, u \in units,
        x \in extras, f \in files}

\* Spec: one week of rows with noisy names and every origin class, against PT
\* and AG lists that may hold the misspelled name, the canonical name, both
\* spellings of one key, or a missing price
ApplyNames == {Chars("Mayones de Panem *"), Chars(" MAYONESA DE PANEM* ")}
ListNames ==
    {Chars("Mayones de Panem *"), Chars("Mayonesa de Panem *"), Chars("MAYONESA DE PANEM*")}

Init ==
    /\ InitWith(SeqsUpTo(TransferRows(ApplyNames, Origins, {"Branch A"}, {2}, {2},
                                      {0, 1}, {1}), MaxLines),
                PriceLists(ListNames, {NaN, 3}, MaxPrecios),
                {None, Some(<< >>)} \cup
                    {Some(l) : l \in PriceLists({Chars("Mayonesa de Panem *")}, {4}, 1) \ {<< >>}})
    /\ include_cedis_dest = FALSE

Spec == Init /\ [][Next]_vars

-----------------------------------------------------------------------------
(* What the claims speak about *)

RowsOf(frame) == {frame[i] : i \in 1..Len(frame)}

\* the rows apply_prices has returned so far: to main, and to the second call
OutputRows == RowsOf(combined) \cup (IF reapplied = None THEN {} ELSE RowsOf(reapplied[1]))

\* the input row of a row of combined
WeekIndex(label) == CHOOSE w \in 1..NumWeeks : WeekLabels[w] = label
InputOf(r) == read_and_concat_transfers(WeekIndex(r.Week))[r.src]

\* the origin text contains the text, read literally
OriginHasOf ==
    [o \in Origins |-> [t \in {"ALMACEN GENERAL", "PRODUCTO TERMINADO"} |->
        Contains(Chars(o), Chars(t))] @@ << >>] @@ << >>
OriginHas(origen, text) == OriginHasOf[origen][text]

AGRows == IF ag_precios = None THEN << >> ELSE ag_precios[1]

\* the prices a list gives for a key: those of its rows whose normalized
\* Producto is the key and whose price is a number
PricesFor(lista, key) ==
    {lista[i].Precio_unitario : i \in {j \in 1..Len(lista) : NormOf[lista[j].Producto] = key}}
        \ {NaN}
ListPrices(lista) == {lista[i].Precio_unitario : i \in 1..Len(lista)} \ {NaN}

\* C1: after apply_prices every output row, matched by a PT price, by an AG
\* price or by none, has Costo = Cantidad x Costo unitario and Costo_after = Costo
ThmC1 ==
    \A r \in OutputRows :
        /\ r.Costo = r.Cantidad * r.Costo_unitario
        /\ r.Costo_after = r.Costo

\* an unmatched row whose recorded Costo was not Cantidad x Costo unitario
WitC1 ==
    \E r \in RowsOf(combined) :
        /\ InputOf(r).Costo # InputOf(r).Cantidad * InputOf(r).Costo_unitario
        /\ r.Costo_unitario = InputOf(r).Costo_unitario
        /\ r.Costo_before = InputOf(r).Costo

\* C2: a row whose origin text contains ALMACEN GENERAL never ends with a unit
\* cost of the PT list, a row whose origin text contains PRODUCTO TERMINADO
\* never ends with a unit cost of the AG list, and a row whose origin contains
\* neither keeps its unit cost.  (In Spec the input unit costs, the PT prices
\* and the AG prices are disjoint, so a unit cost tells its source.)
CexC2 ==
    \A r \in RowsOf(combined) :
        /\ OriginHas(r.Almacen_origen, "ALMACEN GENERAL")
              => r.Costo_unitario \notin ListPrices(precios)
        /\ OriginHas(r.Almacen_origen, "PRODUCTO TERMINADO")
              => r.Costo_unitario \notin ListPrices(AGRows)
        /\ (~OriginHas(r.Almacen_origen, "ALMACEN GENERAL")
              /\ ~OriginHas(r.Almacen_origen, "PRODUCTO TERMINADO"))
              => r.Costo_unitario = InputOf(r).Costo_unitario

\* the columns claim C3 compares
CostColumns(r) ==
    [c \in {"Producto", "Almacen_origen", "Cantidad", "Costo_unitario", "Costo",
            "Costo_before", "Costo_after"} |-> r[c]]

\* C3: apply_prices applied to the output of an earlier call, with the same
\* price lists, yields the same rows with the same Costo unitario, Costo,
\* Costo_before and Costo_after
CexC3 ==
    reapplied # None =>
        /\ Len(reapplied[1]) = Len(df_updated)
        /\ \A i \in 1..Len(df_updated) :
              CostColumns(reapplied[1][i]) = CostColumns(df_updated[i])

\* apply_prices finds no applicable price for the input row: its origin is in
\* neither class, or the applicable list has no row with a price for its key
NoApplicablePrice(in) ==
    /\ OriginHas(in.Almacen_origen, "PRODUCTO TERMINADO")
          => PricesFor(precios, LookupOf[in.Producto]) = {}
    /\ OriginHas(in.Almacen_origen, "ALMACEN GENERAL")
          => PricesFor(AGRows, LookupOf[in.Producto]) = {}

\* C4 as stated: a row with no applicable price keeps its input Costo unitario
\* and its input Costo, also when the input Costo is not Cantidad x Costo unitario
CexC4 ==
    \A r \in RowsOf(combined) :
        NoApplicablePrice(InputOf(r)) =>
            /\ r.Costo_unitario = InputOf(r).Costo_unitario
            /\ r.Costo = InputOf(r).Costo

\* C4 as amended: a row with no applicable price keeps its input Costo unitario;
\* its Costo becomes Cantidad x Costo unitario, which is the input Costo only
\* when the input Costo was that product; the input Costo is kept in Costo_before
ThmC4 ==
    \A r \in RowsOf(combined) :
        LET in == InputOf(r)
        IN  NoApplicablePrice(in) =>
                /\ r.Costo_unitario = in.Costo_unitario
                /\ r.Costo = in.Cantidad * in.Costo_unitario
                /\ r.Costo_before = in.Costo
                /\ (r.Costo = in.Costo <=> in.Costo = in.Cantidad * in.Costo_unitario)

\* a finished-goods row whose key only has a missing price in the PT list, and
\* whose recorded Costo was not Cantidad x Costo unitario
WitC4 ==
    \E r \in RowsOf(combined) :
        /\ NoApplicablePrice(InputOf(r))
        /\ OriginHas(r.Almacen_origen, "PRODUCTO TERMINADO")
        /\ \E i \in 1..Len(precios) :
              /\ NormOf[precios[i].Producto] = LookupOf[r.Producto]
              /\ precios[i].Precio_unitario = NaN
        /\ InputOf(r).Costo # InputOf(r).Cantidad * InputOf(r).Costo_unitario

IsAliasKey(key) == \E i \in 1..Len(PRODUCTO_ALIASES) : Chars(PRODUCTO_ALIASES[i][1]) = key
CanonicalOf(key) ==
    Chars(PRODUCTO_ALIASES[CHOOSE i \in 1..Len(PRODUCTO_ALIASES) :
                              Chars(PRODUCTO_ALIASES[i][1]) = key][2])

\* C5: for a finished-goods row whose normalized name is a key of the alias
\* table, when the PT list has a row with price p for the canonical name and no
\* row for the misspelled name, the row's unit cost is p and its Costo is
\* Cantidad x p
CexC5 ==
    \A r \in RowsOf(combined) :
        \A i \in 1..Len(precios) :
            (/\ OriginHas(r.Almacen_origen, "PRODUCTO TERMINADO")
             /\ IsAliasKey(NormOf[r.Producto])
             /\ NormOf[precios[i].Producto] = CanonicalOf(NormOf[r.Producto])
             /\ precios[i].Precio_unitario # NaN
             /\ \A j \in 1..Len(precios) : NormOf[precios[j].Producto] # NormOf[r.Producto])
            => /\ r.Costo_unitario = precios[i].Precio_unitario
               /\ r.Costo = r.Cantidad * precios[i].Precio_unitario

\* C6: when the applicable list has a row with a price for the raw normalized
\* key of a transfer row, apply_prices uses a price the list gives for that key
\* (the alias is only a fallback).  Stated for rows of the finished-goods class
\* only and for the PT list.
CexC6 ==
    \A r \in RowsOf(combined) :
        (/\ OriginHas(r.Almacen_origen, "PRODUCTO TERMINADO")
         /\ ~OriginHas(r.Almacen_origen, "ALMACEN GENERAL")
         /\ PricesFor(precios, NormOf[r.Producto]) # {})
        => r.Costo_unitario \in PricesFor(precios, NormOf[r.Producto])

-----------------------------------------------------------------------------
(* SpecNames: two finished-goods rows that differ in their names only, the   *)
(* names generated over NameChars and ending in an asterisk once stripped,   *)
(* against a PT list with one row                                            *)

AsteriskNames(n) == {t \in ShortNames(n) : Strip(t) # << >> /\ Strip(t)[Len(Strip(t))] = "*"}

InitNames ==
    /\ InitWith({<<a, b>> :
                    a \in TransferRows(AsteriskNames(MaxNameLen), {"ALMACEN PRODUCTO TERMINADO"},
                                       {"Branch A"}, {2}, {2}, {0}, {1}),
                    b \in TransferRows(AsteriskNames(MaxNameLen), {"ALMACEN PRODUCTO TERMINADO"},
                                       {"Branch A"}, {2}, {2}, {0}, {1})},
                PriceLists({<<"a", " ", "*">>, <<"A", "*">>, <<"a">>}, {3}, 1) \ {<< >>},
                {None})
    /\ include_cedis_dest = FALSE

SpecNames == InitNames /\ [][Next]_vars

\* the name without what claim C7 lets vary: surrounding whitespace, letter
\* case, and the whitespace before a final asterisk
Squash(t) ==
    LET u == Lower(Strip(t))
    IN  IF u # << >> /\ u[Len(u)] = "*"
        THEN RStrip(SubSeq(u, 1, Len(u) - 1)) \o <<"*">>
        ELSE u

EndsInAsterisk(t) == t # << >> /\ t[Len(t)] = "*"

EndsInOneSpaceAndAsterisk(k) ==
    /\ Len(k) >= 2
    /\ k[Len(k)] = "*"
    /\ k[Len(k) - 1] = " "
    /\ Len(k) >= 3 => k[Len(k) - 2] # " "

\* C7: names ending in an asterisk that differ only in the whitespace before
\* the asterisk, the letter case and the surrounding whitespace have the same
\* key; the key ends in exactly one space and the asterisk; and two rows with
\* such names get the same unit cost from apply_prices
ThmC7 ==
    /\ \A i, j \in 1..Len(batch) :
          (Squash(batch[i].Producto) = Squash(batch[j].Producto)
              /\ EndsInAsterisk(Squash(batch[i].Producto)))
          => /\ NormOf[batch[i].Producto] = NormOf[batch[j].Producto]
             /\ EndsInOneSpaceAndAsterisk(NormOf[batch[j].Producto])
    /\ \A r1, r2 \in RowsOf(combined) :
          (Squash(r1.Producto) = Squash(r2.Producto)
              /\ EndsInAsterisk(Squash(r1.Producto)))
          => /\ r1.Costo_unitario = r2.Costo_unitario
             /\ r1.Costo = r2.Costo

\* two rows whose names differ in case and in the whitespace before the asterisk
\* got the list price
WitC7 ==
    \E r1, r2 \in RowsOf(combined) :
        /\ r1.Producto = <<"a", " ", "*">>
        /\ r2.Producto = <<" ", "A", "*">>
        /\ r1.Costo_unitario = 3
        /\ r2.Costo_unitario = 3

-----------------------------------------------------------------------------
(* SpecReports: finished-goods rows of two products over two weeks, to a     *)
(* branch or to Panem - CEDIS, against a PT list that prices Leche at 5 and  *)
(* Pan at 3 or not at all.  A row is 1 unit at 2, 3 units at 4 or 1 unit at  *)
(* 0: the prices move a group by 25, 50 or 150 percent, two rows of a group  *)
(* by 3/7, and a group that cost nothing by no percentage.                   *)

ReportLists ==
    {<<[Producto |-> Chars("Leche"), Precio_unitario |-> 5]>>,
     <<[Producto |-> Chars("Pan"), Precio_unitario |-> 3],
       [Producto |-> Chars("Leche"), Precio_unitario |-> 5]>>}

ReportRows ==
    UNION {TransferRows({Chars("Pan"), Chars("Leche")}, {"ALMACEN PRODUCTO TERMINADO"},
                        {CEDIS, "Branch A"}, {qu[1]}, {qu[2]}, {0}, {1, 2}) :
              qu \in {<<1, 2>>, <<3, 4>>, <<1, 0>>}}

InitReports ==
    /\ InitWith(SeqsUpTo(ReportRows, MaxReportLines), ReportLists, {None})
    /\ include_cedis_dest \in BOOLEAN

SpecReports == InitReports /\ [][Next]_vars

\* how many rows of a sequence satisfy a test
Count(rows, Test(_)) == Cardinality({i \in 1..Len(rows) : Test(rows[i])})

SameLine(a, b) ==
    /\ a.Producto = b.Producto
    /\ a.Almacen_origen = b.Almacen_origen
    /\ a.Sucursal_destino = b.Sucursal_destino
    /\ a.Cantidad = b.Cantidad
    /\ a.Costo_before = b.Costo_before
    /\ a.Costo_after = b.Costo_after

\* C8: the price-change table of a week has exactly one row per line of the week
\* whose Costo_before differs from its Costo_after, and when no line changed it has
\* no rows and exactly the seven base columns
ThmC8 ==
    \A k \in 1..Len(price_changes) :
        LET df == all_transfers[k]
            out == price_changes[k]
        IN  /\ Len(out.rows) = Count(df, LAMBDA r : r.Costo_before # r.Costo_after)
            /\ \A i \in 1..Len(df) :
                  Count(out.rows, LAMBDA o : SameLine(o, df[i]))
                      = IF df[i].Costo_before # df[i].Costo_after
                        THEN Count(df, LAMBDA r : SameLine(r, df[i]))
                        ELSE 0
            /\ (\A i \in 1..Len(df) : df[i].Costo_before = df[i].Costo_after)
                  => /\ out.rows = << >>
                     /\ out.columns = <<"Producto", "Almacen_origen", "Cantidad",
                                        "Costo_unitario_before", "Costo_unitario_after",
                                        "Costo_before", "Costo_after">>

\* the table of a week whose one line changed, then the table of a week whose
\* one line did not
WitC8 ==
    /\ Len(price_changes) = 2
    /\ Len(all_transfers[1]) = 1
    /\ Len(price_changes[1].rows) = 1
    /\ price_changes[2].rows = << >>
    /\ price_changes[2].columns = PriceChangeColumns

\* the changed lines of the run that belong to the group of alert row g
GroupLines(g) ==
    SelectSeq(combined, LAMBDA r : /\ r.Costo_before # r.Costo_after
                                   /\ r.Producto = g.Producto
                                   /\ r.Almacen_origen = g.Almacen_origen)

\* C9: every (Producto, Almacen_origen) group of changed lines has exactly one
\* alert row, labelled HIGH when the unit price after differs from the
\* quantity-weighted average unit price before by more than 50 percent of it in
\* absolute value, MEDIUM when by more than 25 and at most 50 percent, and
\* with the empty label otherwise.  With B the summed Costo_before, Q the summed
\* Cantidad and U the unit price after, the change is 100 (U Q - B) / B percent.
ThmC9 ==
    pc = "done" =>
        /\ \A r \in RowsOf(combined) :
              r.Costo_before # r.Costo_after
              => Count(alerts.rows, LAMBDA g : /\ g.Producto = r.Producto
                                               /\ g.Almacen_origen = r.Almacen_origen) = 1
        /\ \A g \in RowsOf(alerts.rows) :
              LET B == SumOf(GroupLines(g), "Costo_before")
                  Q == SumOf(GroupLines(g), "Cantidad")
                  U == g.Unit_after
                  defined == B # 0 /\ Q # 0
                  d == Abs(100 * (U * Q - B))
              IN  /\ GroupLines(g) # << >>
                  /\ g.Alert = "HIGH" <=> (defined /\ d > 50 * Abs(B))
                  /\ g.Alert = "MEDIUM" <=> (defined /\ d > 25 * Abs(B) /\ d <= 50 * Abs(B))
                  /\ g.Alert = "" <=> (~defined \/ d <= 25 * Abs(B))

\* a run whose alerts hold a HIGH group and a group exactly 50 percent up, MEDIUM
WitC9 ==
    /\ pc = "done"
    /\ \E g \in RowsOf(alerts.rows) : g.Alert = "HIGH"
    /\ \E g \in RowsOf(alerts.rows) :
          /\ g.Alert = "MEDIUM"
          /\ g.Pct_change_unit.num = 50 * g.Pct_change_unit.den

\* the weekly report of the run computed with and without the CEDIS exclusion:
\* the one main stored, and the other computed from the same combined rows
ReportExcluding ==
    IF include_cedis_dest THEN compute_weekly_cost_comparison(combined, TRUE)
    ELSE weekly_report
ReportIncluding ==
    IF include_cedis_dest THEN weekly_report
    ELSE compute_weekly_cost_comparison(combined, FALSE)

WeekLines(w) == SelectSeq(combined, LAMBDA r : r.Week = w)
CedisLines(w) == SelectSeq(WeekLines(w), LAMBDA r : r.Sucursal_destino = "Panem - CEDIS")

\* C10 as stated: for every week both reports show, Total_After with the exclusion
\* is at most Total_After without it, and the two are equal only when the week has
\* no line to Panem - CEDIS
CexC10 ==
    pc \in {"alerts", "done"} =>
        \A e \in RowsOf(ReportExcluding.rows), i \in RowsOf(ReportIncluding.rows) :
            e.Week = i.Week
            => /\ e.Total_After <= i.Total_After
               /\ e.Total_After = i.Total_After => CedisLines(e.Week) = << >>

\* C10 amended: for every week with a line, the report with the exclusion shows
\* the week exactly when it has a line not to Panem - CEDIS, and then its
\* Total_After is the Total_After without the exclusion less the summed
\* Costo_after of the week's lines to Panem - CEDIS: at most that total, and
\* equal to it exactly when those lines' Costo_after sum to zero
ThmC10 ==
    pc \in {"alerts", "done"} =>
        \A i \in RowsOf(ReportIncluding.rows) :
            LET ced == SumOf(CedisLines(i.Week), "Costo_after")
                shown == {e \in RowsOf(ReportExcluding.rows) : e.Week = i.Week}
            IN  IF Len(CedisLines(i.Week)) = Len(WeekLines(i.Week))
                THEN shown = {}
                ELSE /\ Cardinality(shown) = 1
                     /\ \A e \in shown :
                           /\ e.Total_After = i.Total_After - ced
                           /\ e.Total_After <= i.Total_After
                           /\ e.Total_After = i.Total_After <=> ced = 0

\* after the report was written: a week with a line to Panem - CEDIS whose
\* Costo_after is zero beside a line to a branch
WitC10 ==
    /\ pc \in {"alerts", "done"}
    /\ \E w \in RowsOf(WeekLabels) :
          /\ CedisLines(w) # << >>
          /\ Len(CedisLines(w)) < Len(WeekLines(w))
          /\ SumOf(CedisLines(w), "Costo_after") = 0

-----------------------------------------------------------------------------
(* Functions called on their own.  A call ends by returning a value or by    *)
(* raising an exception.                                                     *)

Returned(v) == [raised |-> "", value |-> v]
Raised(e) == [raised |-> e, value |-> << >>]

\* the pipeline variables while a single function is under call
MainIdle ==
    /\ batch = << >>
    /\ precios = << >>
    /\ ag_precios = None
    /\ include_cedis_dest = FALSE
    /\ pc = "idle"
    /\ wk = 1
    /\ df_updated = << >>
    /\ all_transfers = << >>
    /\ price_changes = << >>
    /\ weekly_report = EmptyFrame
    /\ alerts = EmptyFrame
    /\ reapplied = None

-----------------------------------------------------------------------------
(* build_week_ranges.  A date is its proleptic Gregorian ordinal, as         *)
(* date.toordinal() gives it; date arithmetic outside date.min..date.max     *)
(* raises OverflowError.                                                     *)

MaxWeeks == 3          \* num_weeks ranges over 0..MaxWeeks
MaxDayOffset == 13     \* end dates lie within MaxDayOffset days of an anchor date

IsLeap(y) == y % 4 = 0 /\ (y % 100 # 0 \/ y % 400 = 0)
DaysInMonth(y, m) ==
    IF m = 2 THEN (IF IsLeap(y) THEN 29 ELSE 28)
    ELSE IF m \in {4, 6, 9, 11} THEN 30 ELSE 31
RECURSIVE DaysBeforeMonth(_, _)
DaysBeforeMonth(y, m) ==
    IF m = 1 THEN 0 ELSE DaysBeforeMonth(y, m - 1) + DaysInMonth(y, m - 1)
\* date(y, m, d).toordinal()
toordinal(y, m, d) ==
    (y - 1) * 365 + (y - 1) \div 4 - (y - 1) \div 100 + (y - 1) \div 400
        + DaysBeforeMonth(y, m) + d

DateMin == toordinal(1, 1, 1)
DateMax == toordinal(9999, 12, 31)

\* date.isoweekday() in its place: 1 is Monday, 7 is Sunday
weekday_isoweekday(d) == ((d + 6) % 7) + 1

\* date.weekday(): 0 is Monday, 6 is Sunday
weekday(d) == (d + 6) % 7

\* date + timedelta(days=n), n of either sign: the date, or None on OverflowError
DatePlus(d, n) == IF d + n < DateMin \/ d + n > DateMax THEN None ELSE Some(d + n)

\* get_week_boundaries(d): <<monday, sunday>>, or None on OverflowError
get_week_boundaries(d) ==
    LET monday == DatePlus(d, 0 - weekday(d))
    IN  IF monday = None THEN None
        ELSE LET sunday == DatePlus(monday[1], 6)
             IN  IF sunday = None THEN None ELSE Some(<<monday[1], sunday[1]>>)

\* build_week_ranges(end_date, num_weeks)
build_week_ranges(end_date, num_weeks) ==
    LET b == get_week_boundaries(end_date)
    IN  IF b = None THEN Raised("OverflowError")
        ELSE LET last_sunday == b[1][2]
                 n == IF num_weeks < 0 THEN 0 ELSE num_weeks
                 starts == [i \in 1..n |-> DatePlus(last_sunday, 0 - (6 + (i - 1) * 7))]
                 ends == [i \in 1..n |-> DatePlus(last_sunday, 0 - (i - 1) * 7)]
             IN  IF \E i \in 1..n : starts[i] = None \/ ends[i] = None
                 THEN Raised("OverflowError")
                 ELSE Returned([i \in 1..n |-> <<starts[i][1], ends[i][1]>>])

CallBuildWeekRanges ==
    /\ call.fn = "build_week_ranges"
    /\ ret = None
    /\ ret' = Some(build_week_ranges(call.end_date, call.num_weeks))
    /\ UNCHANGED <<mainVars, call, stepVars>>

\* end dates around 2026-02-08, at the first days and at the last days of the calendar
EndDates ==
    {toordinal(2026, 2, 8) - k : k \in 0..MaxDayOffset}
    \cup {DateMin + k : k \in 0..MaxDayOffset}
    \cup {DateMax - k : k \in 0..MaxDayOffset}

InitWeeks ==
    /\ MainIdle
    /\ StepIdle
    /\ call \in [fn : {"build_week_ranges"}, end_date : EndDates, num_weeks : 0..MaxWeeks]
    /\ ret = None

NextWeeks == CallBuildWeekRanges

SpecWeeks == InitWeeks /\ [][NextWeeks]_vars

\* the day is a Monday, a Sunday (ordinal 1, 0001-01-01, is a Monday)
IsMonday(d) == d % 7 = 1
IsSunday(d) == d % 7 = 0

\* the windows are what claim C11 describes for the call
WeekWindows(w, end_date, n) ==
    /\ Len(w) = n
    /\ \A i \in 1..n : /\ IsMonday(w[i][1])
                       /\ IsSunday(w[i][2])
                       /\ w[i][2] = w[i][1] + 6
    /\ n >= 1 => /\ w[1][2] >= end_date
                 /\ w[1][2] <= end_date + 6
    /\ \A i \in 1..(n - 1) : /\ w[i + 1][2] < w[i][1]
                             /\ w[i][1] = w[i + 1][2] + 1

WindowsInCalendar(end_date, n) ==
    /\ \E s \in end_date..(end_date + 6) : IsSunday(s) /\ s <= DateMax
    /\ \A s \in end_date..(end_date + 6) : IsSunday(s) => s - (7 * n - 1) >= DateMin

-----------------------------------------------------------------------------
(* The golden workbook.  A sheet read with header=None is the sequence of    *)
(* its rows, each row the sequence of its cells; a cell is a text, a number, *)
(* a date with its time of day in seconds, or empty (NaN).                   *)

StrCell(s) == [kind |-> "str", text |-> Chars(s), num |-> 0, day |-> 0, tod |-> 0]
NumCell(n) == [kind |-> "num", text |-> << >>, num |-> n, day |-> 0, tod |-> 0]
DateCell(d, t) == [kind |-> "date", text |-> << >>, num |-> 0, day |-> d, tod |-> t]
NanCell == [kind |-> "nan", text |-> << >>, num |-> 0, day |-> 0, tod |-> 0]

IsDigit(c) == Code(c) >= Code("0") /\ Code(c) <= Code("9")
DigitOf(n) == Alphabet[Code("0") + n]
\* str(n) of an integer n >= 0
RECURSIVE Digits(_)
Digits(n) == IF n < 10 THEN <<DigitOf(n)>> ELSE Digits(n \div 10) \o <<DigitOf(n % 10)>>
\* int(t) of a text of digits
RECURSIVE DigitsValue(_)
DigitsValue(t) ==
    IF t = << >> THEN 0
    ELSE 10 * DigitsValue(SubSeq(t, 1, Len(t) - 1)) + (Code(t[Len(t)]) - Code("0"))
AllDigits(t) == t # << >> /\ \A i \in 1..Len(t) : IsDigit(t[i])
\* n written with at least w digits
RECURSIVE ZeroPad(_, _)
ZeroPad(t, w) == IF Len(t) >= w THEN t ELSE ZeroPad(<<"0">> \o t, w)

\* the year, month and day of an ordinal
YearOf(d) == CHOOSE y \in ((d \div 366) + 1)..((d \div 365) + 1) :
                 toordinal(y, 1, 1) <= d /\ d < toordinal(y + 1, 1, 1)
MonthOf(d) == CHOOSE m \in 1..12 :
                  /\ toordinal(YearOf(d), m, 1) <= d
                  /\ d < toordinal(YearOf(d), m, 1) + DaysInMonth(YearOf(d), m)
DayOf(d) == d - toordinal(YearOf(d), MonthOf(d), 1) + 1
\* str(Timestamp) for the date part: YYYY-MM-DD
DateText(d) ==
    ZeroPad(Digits(YearOf(d)), 4) \o <<"-">> \o ZeroPad(Digits(MonthOf(d)), 2)
        \o <<"-">> \o ZeroPad(Digits(DayOf(d)), 2)

\* str(v) of a cell, as astype(str) gives it; of a date, its date part (the
\* time part that follows holds digits and colons only)
CellStr(c) ==
    CASE c.kind = "str" -> c.text
      [] c.kind = "num" -> Digits(c.num)
      [] c.kind = "date" -> DateText(c.day)
      [] c.kind = "nan" -> Chars("nan")

\* a timestamp, or NaT
NaT == None
Timestamp(d, t) == Some([day |-> d, tod |-> t])
Epoch == toordinal(1970, 1, 1)

\* a text YYYY-MM-DD of a calendar day as a timestamp at midnight; the texts of
\* the model are such dates or have no reading as a date
ParseDateText(t) ==
    IF /\ Len(t) = 10
       /\ t[5] = "-" /\ t[8] = "-"
       /\ AllDigits(SubSeq(t, 1, 4)) /\ AllDigits(SubSeq(t, 6, 7)) /\ AllDigits(SubSeq(t, 9, 10))
    THEN LET y == DigitsValue(SubSeq(t, 1, 4))
             m == DigitsValue(SubSeq(t, 6, 7))
             d == DigitsValue(SubSeq(t, 9, 10))
         IN  IF y >= 1 /\ m \in 1..12 /\ d >= 1 /\ d <= DaysInMonth(y, m)
             THEN Timestamp(toordinal(y, m, d), 0) ELSE NaT
    ELSE NaT

\* pd.to_datetime(v, errors="coerce") of a cell; a number counts nanoseconds
\* from the epoch, and the numbers of the model stay within its first second
to_datetime(c) ==
    CASE c.kind = "date" -> Timestamp(c.day, c.tod)
      [] c.kind = "str" -> ParseDateText(Strip(c.text))
      [] c.kind = "num" -> Timestamp(Epoch, 0)
      [] c.kind = "nan" -> NaT

\* pd.to_numeric(v, errors="coerce") of a cell: the number, or None for NaN; the
\* numeric texts of the model are digit strings
to_numeric(c) ==
    CASE c.kind = "num" -> Some(c.num)
      [] c.kind = "str" -> IF AllDigits(Strip(c.text)) THEN Some(DigitsValue(Strip(c.text))) ELSE None
      [] c.kind = "date" -> None
      [] c.kind = "nan" -> None

HEADER_SCAN_ROWS == 15

\* the least of a set of indices, or default when there is none
Least(hits, default) ==
    IF hits = {} THEN default ELSE CHOOSE i \in hits : \A k \in hits : i <= k

\* detect_header_row(df): the index from 0 of the first of the first 15 rows
\* with a cell whose text contains Orden, or -1
detect_header_row(df) ==
    Least({i \in 0..((IF Len(df) < HEADER_SCAN_ROWS THEN Len(df) ELSE HEADER_SCAN_ROWS) - 1) :
              \E j \in 1..Len(df[i + 1]) : Contains(CellStr(df[i + 1][j]), Chars("Orden"))},
          0 - 1)

\* next((i for i, c in enumerate(cols) if P(c)), default)
FirstIndex(cols, P(_), default) ==
    Least({i \in 0..(Len(cols) - 1) : P(cols[i + 1])}, default)

\* the column positions parse_sheet resolves from the header row
SheetColumns(cols) ==
    LET costo == FirstIndex(cols, LAMBDA c : Contains(c, Chars("Costo")), 10)
    IN  [orden |-> FirstIndex(cols, LAMBDA c : Contains(c, Chars("Orden")), 1),
         origen |-> FirstIndex(cols, LAMBDA c : Contains(c, Chars("Almac"))
                                                /\ Contains(Lower(c), Chars("origen")), 2),
         dest |-> FirstIndex(cols, LAMBDA c : Contains(Lower(c), Chars("destino")), 3),
         fecha |-> FirstIndex(cols, LAMBDA c : Contains(c, Chars("Fecha")), 5),
         cant |-> FirstIndex(cols, LAMBDA c : Contains(c, Chars("Cantidad")), 6),
         depto |-> FirstIndex(cols, LAMBDA c : Contains(c, Chars("Departamento")), 7),
         prod |-> FirstIndex(cols, LAMBDA c : Contains(c, Chars("Producto")), 8),
         costo |-> IF costo >= Len(cols) THEN Len(cols) - 1 ELSE costo]

\* the row parse_sheet builds from a data row
GoldRow(row, at, sucursal) ==
    [Orden |-> CellStr(row[at.orden + 1]),
     Almacen_origen |-> Upper(Strip(CellStr(row[at.origen + 1]))),
     Sucursal_destino |-> IF sucursal # << >> THEN sucursal
                          ELSE Strip(CellStr(row[at.dest + 1])),
     Fecha |-> to_datetime(row[at.fecha + 1]),
     Cantidad |-> to_numeric(row[at.cant + 1]),
     Departamento |-> CellStr(row[at.depto + 1]),
     Producto |-> Strip(CellStr(row[at.prod + 1])),
     Costo |-> to_numeric(row[at.costo + 1])]

\* the column positions the rows are read at
UsedColumns(at, sucursal) ==
    {at.orden, at.origen, at.fecha, at.cant, at.depto, at.prod, at.costo}
        \cup (IF sucursal # << >> THEN {} ELSE {at.dest})

\* the filters of parse_sheet: a product of more than two characters, a cost
\* and a quantity
KeptRow(r) == Len(r.Producto) > 2 /\ r.Costo # None /\ r.Cantidad # None

\* a kept row with its UnitCost = Costo / Cantidad
WithUnitCost(r) ==
    [r EXCEPT !.Costo = r.Costo[1], !.Cantidad = r.Cantidad[1]]
        @@ ("UnitCost" :> Quot(r.Costo[1], r.Cantidad[1]))

\* the kept rows of a sequence of rows, each with its UnitCost
KeptRows(out) == [i \in 1..Len(out) |-> WithUnitCost(out[i])]

\* the rows read from the data rows at the resolved positions
RowsAt(data, ncols, at, sucursal) ==
    IF \E k \in UsedColumns(at, sucursal) : k >= ncols
    THEN Raised("IndexError")
    ELSE Returned(KeptRows(SelectSeq([i \in 1..Len(data) |-> GoldRow(data[i], at, sucursal)],
                                    KeptRow)))

\* the texts of the cells of the header row
HeaderTexts(row) == [j \in 1..Len(row) |-> CellStr(row[j])]

\* the rows read from the data rows under the header texts cols
RowsUnder(data, cols, sucursal) == RowsAt(data, Len(cols), SheetColumns(cols), sucursal)

\* the body of parse_sheet once the header row is detected at index hdr
RowsBelowHeader(df, hdr, sucursal) ==
    IF hdr < 0 THEN Returned(<< >>)
    ELSE RowsUnder(SubSeq(df, hdr + 2, Len(df)), HeaderTexts(df[hdr + 1]), sucursal)

\* parse_sheet(df, sheet_name, sucursal): the rows, or IndexError when a column
\* position lies beyond the columns of the sheet
parse_sheet(df, sheet_name, sucursal) == RowsBelowHeader(df, detect_header_row(df), sucursal)

SHEET_TO_SUCURSAL ==
    <<<<Chars("KAVIA"), Chars("Panem - Hotel Kavia N")>>,
      <<Chars("PV"), Chars("Panem - Punto Valle")>>,
      <<Chars("QIN"), Chars("Panem - Plaza QIN N")>>,
      <<Chars("Q"), Chars("Panem - Plaza QIN N")>>,
      <<Chars("HZ"), Chars("Panem - Hospital Zambrano N")>>,
      <<Chars("CARRETA"), Chars("Panem - La Carreta N")>>,
      <<Chars("C"), Chars("Panem - La Carreta N")>>,
      <<Chars("NATIVA"), Chars("Panem - Plaza Nativa")>>,
      <<Chars("N"), Chars("Panem - Plaza Nativa")>>,
      <<Chars("CC"), Chars("Panem - Credi Club")>>>>

\* SHEET_TO_SUCURSAL.get(branch, f"Panem - {branch}")
SucursalOf(branch) ==
    IF \E i \in 1..Len(SHEET_TO_SUCURSAL) : SHEET_TO_SUCURSAL[i][1] = branch
    THEN SHEET_TO_SUCURSAL[CHOOSE i \in 1..Len(SHEET_TO_SUCURSAL) : SHEET_TO_SUCURSAL[i][1] = branch][2]
    ELSE Chars("Panem - ") \o branch

GOLD_Fecha_START == Chars("2026-02-02")
GOLD_Fecha_END == Chars("2026-02-08")

\* a <= b for timestamps
TsLeq(a, b) == a.day < b.day \/ (a.day = b.day /\ a.tod <= b.tod)

\* the timestamps the two bounds are read as
WindowStart == ParseDateText(GOLD_Fecha_START)[1]
WindowEnd == ParseDateText(GOLD_Fecha_END)[1]

\* (Fecha >= GOLD_Fecha_START) & (Fecha <= GOLD_Fecha_END): each bound is read
\* as the timestamp of its midnight, and NaT compares false
InWindow(f) ==
    /\ f # NaT
    /\ TsLeq(WindowStart, f[1])
    /\ TsLeq(f[1], WindowEnd)

\* the sheets the loop passes over before reading them
SkippedSheet(sheet) ==
    \/ sheet = Chars("NUMEROS")
    \/ Contains(sheet, Chars("-PT-W"))
    \/ ~Contains(sheet, Chars("-"))

\* sheet.split("-")[0]
BranchOf(sheet) ==
    SubSeq(sheet, 1, (CHOOSE i \in 1..Len(sheet) :
                          sheet[i] = "-" /\ \A k \in 1..(i - 1) : sheet[k] # "-") - 1)

\* the rows of a parsed sheet restricted to the origin it is correct for,
\* without the restriction on the origin
OriginRows_any(sheet, parsed) ==
    IF Contains(sheet, Chars("-AG")) \/ Contains(sheet, Chars("-PT-R")) THEN parsed ELSE << >>

\* the rows of a parsed sheet restricted to the origin it is correct for
OriginRows(sheet, parsed) ==
    IF Contains(sheet, Chars("-AG"))
    THEN SelectSeq(parsed, LAMBDA r : Contains(r.Almacen_origen, Chars("ALMACEN GENERAL")))
    ELSE IF Contains(sheet, Chars("-PT-R"))
    THEN SelectSeq(parsed, LAMBDA r : Contains(r.Almacen_origen, Chars("ALMACEN PRODUCTO TERMINADO")))
    ELSE << >>

\* the rows of a parsed sheet, each with the name of its sheet
WithSheet(sheet, rows) == [i \in 1..Len(rows) |-> rows[i] @@ ("Sheet" :> sheet)]

\* what the rows kept of a sheet add to all_rows and to ag_rows
AppendedRows(sheet, rows) ==
    [raised |-> "",
     all_rows |-> rows,
     ag_rows |-> IF Contains(sheet, Chars("-AG")) THEN rows ELSE << >>]

\* what the outcome p of parse_sheet on a sheet adds to all_rows and to ag_rows
Appended(sheet, p) ==
    IF p.raised # "" THEN [raised |-> p.raised, all_rows |-> << >>, ag_rows |-> << >>]
    ELSE AppendedRows(sheet, OriginRows(sheet, WithSheet(sheet, p.value)))

\* one pass of the loop of parse_gold_excel: what a sheet adds to all_rows and
\* to ag_rows, or the exception parse_sheet raises on it
SheetResult(sheet, df) ==
    IF SkippedSheet(sheet) THEN [raised |-> "", all_rows |-> << >>, ag_rows |-> << >>]
    ELSE Appended(sheet, parse_sheet(df, sheet, SucursalOf(BranchOf(sheet))))

MaxSheets == 2         \* sheets of a workbook

\* the header row of a detail sheet, its columns named
GoldHeader ==
    <<StrCell("Orden"), StrCell("Almacen origen"), StrCell("Sucursal destino"),
      StrCell("Fecha"), StrCell("Cantidad"), StrCell("Departamento"),
      StrCell("Producto"), StrCell("Costo")>>

GoldDataRow(orden, origen, fecha, cantidad, producto, costo) ==
    <<StrCell(orden), StrCell(origen), StrCell("Panem - Hotel Kavia N"), fecha,
      cantidad, StrCell("PAN"), StrCell(producto), costo>>

\* dates before, in and after the week of 2026-02-02, at midnight and later in
\* the day, and an empty date
GoldFechas ==
    {DateCell(toordinal(2026, 2, 1), 86399), DateCell(toordinal(2026, 2, 2), 0),
     DateCell(toordinal(2026, 2, 8), 37800), DateCell(toordinal(2026, 2, 9), 0), NanCell}

GoldOrigins == {"ALMACEN GENERAL", "ALMACEN PRODUCTO TERMINADO"}

\* a header row with Orden alone, the other columns at the fallback positions
FallbackHeader ==
    <<NanCell, StrCell("Orden"), NanCell, NanCell, NanCell, NanCell, NanCell, NanCell,
      NanCell, NanCell, NanCell>>
FallbackRow ==
    <<NumCell(1), StrCell("1001"), StrCell("ALMACEN GENERAL"), StrCell("Panem - Hotel Kavia N"),
      NanCell, DateCell(toordinal(2026, 2, 5), 0), NumCell(2), StrCell("PAN"), StrCell("Pan"),
      StrCell("Unidad"), NumCell(6)>>

\* a row above the header row: a title in its first cell
TitleRow == [j \in 1..Len(GoldHeader) |-> IF j = 1 THEN StrCell("Total") ELSE NanCell]

\* the sheets of the model
GoldFrames ==
    {<<GoldHeader, GoldDataRow("1001", o, f, NumCell(2), "Pan", NumCell(6))>> :
        o \in GoldOrigins, f \in GoldFechas}
    \cup {\* no data row
          <<GoldHeader>>,
          \* no sheet at all
          << >>,
          \* two rows, one of them with a text of two characters as product
          <<GoldHeader,
            GoldDataRow("1001", " almacen general ", StrCell("2026-02-05"), StrCell("1001"), "Leche", NumCell(6)),
            GoldDataRow("1001", "ALMACEN GENERAL", DateCell(toordinal(2026, 2, 5), 0), NumCell(2), "ab", NumCell(6))>>,
          \* two rows, one of them without a cost
          <<GoldHeader,
            GoldDataRow("1001", "ALMACEN PRODUCTO TERMINADO", DateCell(toordinal(2026, 2, 3), 0), NumCell(0), "Pan", NumCell(6)),
            GoldDataRow("1001", "ALMACEN PRODUCTO TERMINADO", DateCell(toordinal(2026, 2, 5), 0), NumCell(2), "Pan", NanCell)>>,
          \* two rows in the window, one of each origin
          <<GoldHeader,
            GoldDataRow("1001", "ALMACEN GENERAL", DateCell(toordinal(2026, 2, 5), 0), NumCell(2), "Pan", NumCell(6)),
            GoldDataRow("1001", "ALMACEN PRODUCTO TERMINADO", DateCell(toordinal(2026, 2, 5), 0), NumCell(2), "Leche", NumCell(6))>>,
          \* the columns found by position
          <<FallbackHeader, FallbackRow>>,
          \* no cell with Orden
          <<<<StrCell("Producto"), StrCell("Total")>>, <<StrCell("Pan"), NumCell(6)>>>>,
          \* Orden in a sheet of two columns
          <<<<StrCell("Orden"), StrCell("Costo")>>, <<StrCell("1001"), NumCell(6)>>>>,
          \* the header row below the rows that are scanned
          [i \in 1..HEADER_SCAN_ROWS |-> TitleRow]
              \o <<GoldHeader, GoldDataRow("1001", "ALMACEN GENERAL", DateCell(toordinal(2026, 2, 5), 0), NumCell(2), "Pan", NumCell(6))>>}

GoldSheetNames ==
    <<Chars("NUMEROS"), Chars("KAVIA-AG"), Chars("ZZ-PT-R"), Chars("KAVIA-PT-W"), Chars("NOTAS")>>

\* SheetResult on the sheets of the model, computed once
SheetResultOf ==
    [n \in {GoldSheetNames[i] : i \in 1..Len(GoldSheetNames)} |->
        [df \in GoldFrames |-> SheetResult(n, df)] @@ << >>] @@ << >>

\* the rows of one sheet followed by those of the sheets after it
JoinRows(one, rest) ==
    IF rest.raised # "" THEN rest
    ELSE [raised |-> "",
          all_rows |-> one.all_rows \o rest.all_rows,
          ag_rows |-> one.ag_rows \o rest.ag_rows]

\* the loop of parse_gold_excel over the sheets: all_rows and ag_rows
\* concatenated, or the exception of the first sheet that raises
RECURSIVE GoldSheetRows(_)
ThenRows(one, later) == IF one.raised # "" THEN one ELSE JoinRows(one, GoldSheetRows(later))
GoldSheetRows(sheets) ==
    IF sheets = << >> THEN [raised |-> "", all_rows |-> << >>, ag_rows |-> << >>]
    ELSE ThenRows(SheetResultOf[Head(sheets).name][Head(sheets).df], Tail(sheets))

\* the two tables parse_gold_excel makes of the rows g of the loop
GoldTables(g) ==
    IF g.raised # "" THEN Raised(g.raised)
    ELSE IF g.all_rows = << >> THEN Returned([all_gold |-> << >>, ag_gold |-> << >>])
    ELSE IF g.ag_rows = << >> THEN Raised("KeyError")
    ELSE Returned([all_gold |-> SelectSeq(g.all_rows, LAMBDA r : InWindow(r.Fecha)),
                   ag_gold |-> SelectSeq(g.ag_rows, LAMBDA r : InWindow(r.Fecha))])

\* parse_gold_excel(path) on the sheets of the workbook at path: the pair
\* (all_gold, ag_gold), or the exception raised
parse_gold_excel(sheets) == GoldTables(GoldSheetRows(sheets))

CallParseGoldExcel ==
    /\ call.fn = "parse_gold_excel"
    /\ ret = None
    /\ ret' = Some(parse_gold_excel(call.sheets))
    /\ UNCHANGED <<mainVars, call, stepVars>>

\* the sheet names of a workbook: distinct, in the order of GoldSheetNames
SheetNameLists ==
    {s \in SeqsUpTo(1..Len(GoldSheetNames), MaxSheets) : \A i \in 1..(Len(s) - 1) : s[i] < s[i + 1]}

\* a workbook of up to MaxSheets sheets, each one of the sheets of the model
InitGold ==
    /\ MainIdle
    /\ StepIdle
    /\ \E s \in SheetNameLists : \E dfs \in [1..Len(s) -> GoldFrames] :
           call = [fn |-> "parse_gold_excel",
                   sheets |-> [i \in 1..Len(s) |-> [name |-> GoldSheetNames[s[i]], df |-> dfs[i]]]]
    /\ ret = None

NextGold == CallParseGoldExcel

SpecGold == InitGold /\ [][NextGold]_vars

\* the timestamp falls on a day from 2026-02-02 to 2026-02-08
OnWindowDay(f) ==
    /\ f # NaT
    /\ toordinal(2026, 2, 2) <= f[1].day
    /\ f[1].day <= toordinal(2026, 2, 8)

\* C12 as stated: the tables parse_gold_excel returns hold exactly the parsed
\* rows dated on a day from 2026-02-02 to 2026-02-08: none dated outside or
\* without a date, and none dated on a day of the window removed
CexC12 ==
    (call.fn = "parse_gold_excel" /\ ret # None /\ ret[1].raised = "")
    => LET g == GoldSheetRows(call.sheets)
       IN  /\ ret[1].value.all_gold = SelectSeq(g.all_rows, LAMBDA r : OnWindowDay(r.Fecha))
           /\ ret[1].value.ag_gold = SelectSeq(g.ag_rows, LAMBDA r : OnWindowDay(r.Fecha))

\* the rows of a table
TableRows(t) == {t[i] : i \in 1..Len(t)}

\* the row without its Sheet column
WithoutSheet(r) == [c \in (DOMAIN r) \ {"Sheet"} |-> r[c]]

\* parse_sheet on the sheets of the model, as parse_gold_excel calls it
ParsedOf ==
    [n \in {GoldSheetNames[i] : i \in 1..Len(GoldSheetNames)} |->
        [df \in GoldFrames |->
            IF Contains(n, Chars("-")) THEN parse_sheet(df, n, SucursalOf(BranchOf(n)))
            ELSE Returned(<< >>)] @@ << >>] @@ << >>

\* the row is one of the rows parse_sheet gives for a sheet of the workbook
\* with the name in its Sheet column
ComesFromItsSheet(r, sheets) ==
    \E i \in 1..Len(sheets) :
        /\ sheets[i].name = r.Sheet
        /\ LET p == ParsedOf[r.Sheet][sheets[i].df]
           IN  p.raised = "" /\ WithoutSheet(r) \in TableRows(p.value)

RECURSIVE ReadableSheetRows(_)
ReadableSheetRows(sheets) ==
    IF sheets = << >> THEN [all_rows |-> << >>, ag_rows |-> << >>]
    ELSE LET one == SheetResultOf[Head(sheets).name][Head(sheets).df]
             rest == ReadableSheetRows(Tail(sheets))
         IN  [all_rows |-> one.all_rows \o rest.all_rows,
              ag_rows |-> one.ag_rows \o rest.ag_rows]

\* C18 as stated: parse_gold_excel returns its two tables without raising for
\* every workbook; a sheet without Orden in its first 15 rows, or with fewer
\* columns than the fallback positions, adds no rows and the rows of the other
\* sheets are returned; without rows from -AG sheets the AG-only table is empty
CexC18 ==
    (call.fn = "parse_gold_excel" /\ ret # None)
    => LET g == ReadableSheetRows(call.sheets)
       IN  /\ ret[1].raised = ""
           /\ ret[1].value.all_gold = SelectSeq(g.all_rows, LAMBDA r : InWindow(r.Fecha))
           /\ ret[1].value.ag_gold = SelectSeq(g.ag_rows, LAMBDA r : InWindow(r.Fecha))

-----------------------------------------------------------------------------
(* The Kavia total of the NUMEROS sheet: parse_numeros and then              *)
(* extract_kavia_total.  The sheet is None when read_excel raises (no such   *)
(* sheet, or a file that cannot be read), else its rows.                     *)

GOLD_NUMEROS_KAVIA == 62083

\* t.replace(c, "")
Without(t, c) == SelectSeq(t, LAMBDA x : x # c)

\* float(t) succeeds; the texts of the model are words, digit strings and the
\* names float() reads as nan and inf
FloatText(t) ==
    LET u == Strip(t)
    IN  AllDigits(u) \/ Lower(u) \in {Chars("nan"), Chars("inf"), Chars("infinity")}

\* the last i of the row, from 0, with P(row[i]), or -1
LastIndex(row, P(_)) ==
    LET hits == {i \in 0..(Len(row) - 1) : P(row[i + 1])}
    IN  IF hits = {} THEN 0 - 1 ELSE CHOOSE i \in hits : \A k \in hits : i >= k

ContainsAny(t, subs) == \E s \in subs : Contains(t, s)

\* the columns parse_numeros takes the branch and the total from
NumerosColumns(first_row) ==
    LET branch == LastIndex(first_row, LAMBDA v :
                      ContainsAny(Lower(v), {Chars("sucursal"), Chars("branch"),
                                             Chars("suc"), Chars("destino")}))
        total == LastIndex(first_row, LAMBDA v :
                      ContainsAny(Lower(v), {Chars("total"), Chars("costo"), Chars("suma")}))
        numeric == LastIndex(first_row, LAMBDA v : FloatText(Without(Without(v, ","), " ")))
    IN  [branch_col |-> IF branch < 0 THEN 0 ELSE branch,
         total_col |-> IF total >= 0 THEN total ELSE IF numeric >= 0 THEN numeric ELSE 1]

\* parse_numeros(path): the rows (Branch, Total), none for an empty table, or
\* IndexError when the total column lies beyond the columns of the sheet
parse_numeros(sheet) ==
    IF sheet = None THEN Returned(<< >>)
    ELSE LET df == sheet[1]
         IN  IF Len(df) < 2 THEN Returned(<< >>)
             ELSE LET first_row == [j \in 1..Len(df[1]) |-> CellStr(df[1][j])]
                      at == NumerosColumns(first_row)
                      data == Tail(df)
                      result == [i \in 1..Len(data) |->
                                    [Branch |-> Strip(CellStr(data[i][at.branch_col + 1])),
                                     Total |-> to_numeric(data[i][at.total_col + 1])]]
                      kept == SelectSeq(result, LAMBDA r : r.Total # None /\ Len(r.Branch) > 0)
                  IN  IF at.total_col >= Len(first_row) THEN Raised("IndexError")
                      ELSE Returned([i \in 1..Len(kept) |-> [kept[i] EXCEPT !.Total = kept[i].Total[1]]])

\* extract_kavia_total(numeros_df)
extract_kavia_total(numeros_df) ==
    LET kavia_rows == SelectSeq(numeros_df, LAMBDA r :
                          \/ Contains(Upper(Strip(r.Branch)), Chars("KAVIA"))
                          \/ Upper(Strip(r.Branch)) = Chars("K"))
    IN  IF numeros_df = << >> THEN GOLD_NUMEROS_KAVIA
        ELSE IF kavia_rows = << >> THEN GOLD_NUMEROS_KAVIA
        ELSE kavia_rows[1].Total

\* numeros_df = parse_numeros(gold_path); extract_kavia_total(numeros_df)
CallExtractKaviaTotal ==
    /\ call.fn = "extract_kavia_total"
    /\ ret = None
    /\ ret' = Some(LET p == parse_numeros(call.numeros)
                   IN  IF p.raised # "" THEN p ELSE Returned(extract_kavia_total(p.value)))
    /\ UNCHANGED <<mainVars, call, stepVars>>

MaxNumerosRows == 2    \* rows of the NUMEROS sheet below its first row

NumerosHeaders ==
    {<<StrCell("Sucursal"), StrCell("Total")>>,
     <<StrCell("Total"), StrCell("Sucursal")>>,
     <<StrCell("PAN"), NumCell(6)>>,
     <<StrCell("PAN"), StrCell("Pan")>>,
     <<StrCell("Sucursal")>>,
     <<StrCell("Total")>>,
     <<NanCell>>}

NumerosCells ==
    {StrCell("KAVIA"), StrCell(" k "), StrCell("PV"), NumCell(5)}

\* the NUMEROS sheet of the call: none, without rows, or a first row and up to
\* MaxNumerosRows rows of as many cells
InitNumeros ==
    /\ MainIdle
    /\ StepIdle
    /\ \/ call \in [fn : {"extract_kavia_total"}, numeros : {None, Some(<< >>)}]
       \/ \E h \in NumerosHeaders : \E k \in 0..MaxNumerosRows :
              \E rows \in [1..k -> [1..Len(h) -> NumerosCells]] :
                  call = [fn |-> "extract_kavia_total", numeros |-> Some(<<h>> \o rows)]
    /\ ret = None

NextNumeros == CallExtractKaviaTotal

SpecNumeros == InitNumeros /\ [][NextNumeros]_vars

\* C19 as stated: parse_numeros followed by extract_kavia_total never raises,
\* and gives 62083.0 when the sheet is missing or unreadable, has fewer than
\* two rows, has a single column, or has no Kavia row with a numeric total
CexC19 ==
    (call.fn = "extract_kavia_total" /\ ret # None)
    => /\ ret[1].raised = ""
       /\ (\/ call.numeros = None
           \/ Len(call.numeros[1]) < 2
           \/ Len(call.numeros[1][1]) = 1
           \/ parse_numeros(call.numeros).raised = ""
                  /\ \A r \in TableRows(parse_numeros(call.numeros).value) :
                         ~(Contains(Upper(r.Branch), Chars("KAVIA")) \/ Upper(r.Branch) = Chars("K")))
              => ret[1].value = GOLD_NUMEROS_KAVIA

-----------------------------------------------------------------------------
(* The price-list loaders.  The file at the path is absent, is not a         *)
(* spreadsheet, or holds a first sheet: its column names and its rows, each  *)
(* row the cells under the columns.  A price is a quotient, 0/0 for NaN.     *)

NaNPrice == Quot(0, 0)
\* the float of a numeric cell, NaN for None
PriceOf(n) == IF n = None THEN NaNPrice ELSE Quot(n[1], 1)

HasColumn(columns, name) == \E j \in 1..Len(columns) : columns[j] = name
\* df[name] at a row
CellAt(columns, row, name) == row[CHOOSE j \in 1..Len(columns) : columns[j] = name]

\* next((c for c in df.columns if P(c)), None)
FirstColumn(columns, P(_)) ==
    LET hits == {j \in 1..Len(columns) : P(columns[j])}
    IN  IF hits = {} THEN None ELSE Some(columns[CHOOSE j \in hits : \A k \in hits : j <= k])

\* the mask with no test of the unit, in its place
mask_pz_any_unit(unidad, present_num, precio) ==
    /\ present_num # None /\ present_num[1] > 0
    /\ precio # None

\* mask_pz: unit PZ, a pack size above 0 and a price
mask_pz(unidad, present_num, precio) ==
    /\ unidad = Chars("PZ")
    /\ present_num # None /\ present_num[1] > 0
    /\ precio # None

\* the Precio unitario load_precios computes from PRECIO DRIVE for a row
DrivePrice(columns, row) ==
    LET precio == to_numeric(CellAt(columns, row, Chars("PRECIO DRIVE")))
        unidad_col == FirstColumn(columns, LAMBDA c : Upper(Strip(c)) = Chars("UNIDAD"))
        present_col == FirstColumn(columns, LAMBDA c : Contains(Lower(c), Chars("present")))
    IN  IF unidad_col # None /\ present_col # None
        THEN LET unidad == Upper(Strip(CellStr(CellAt(columns, row, unidad_col[1]))))
                 present_num == to_numeric(CellAt(columns, row, present_col[1]))
             IN  IF mask_pz(unidad, present_num, precio)
                 THEN Quot(precio[1], present_num[1])
                 ELSE PriceOf(precio)
        ELSE PriceOf(precio)

\* df.drop_duplicates(subset=["Producto"], keep="first")
RECURSIVE drop_duplicates(_)
drop_duplicates(entries) ==
    IF entries = << >> THEN << >>
    ELSE LET front == drop_duplicates(SubSeq(entries, 1, Len(entries) - 1))
             last == entries[Len(entries)]
         IN  IF \E i \in 1..Len(front) : front[i].Producto = last.Producto
             THEN front ELSE Append(front, last)

\* the exception read_excel raises on the file, "" for none
ReadError(file) ==
    CASE file.state = "missing" -> "FileNotFoundError"
      [] file.state = "unreadable" -> "ValueError"
      [] file.state = "sheet" -> ""

\* load_precios(precios_path)
load_precios(file) ==
    IF ReadError(file) # "" THEN Raised(ReadError(file))
    ELSE LET columns == file.columns
             product_col == IF HasColumn(columns, Chars("NOMBRE WANSOFT"))
                            THEN Chars("NOMBRE WANSOFT") ELSE Chars("Producto")
             Precio(row) ==
                 IF HasColumn(columns, Chars("PRECIO UNITARIO"))
                 THEN PriceOf(to_numeric(CellAt(columns, row, Chars("PRECIO UNITARIO"))))
                 ELSE IF HasColumn(columns, Chars("PRECIO DRIVE"))
                 THEN DrivePrice(columns, row)
                 ELSE IF HasColumn(columns, Chars("Precio unitario"))
                 THEN PriceOf(to_numeric(CellAt(columns, row, Chars("Precio unitario"))))
                 ELSE NaNPrice
         IN  IF ~HasColumn(columns, product_col) THEN Raised("KeyError")
             ELSE Returned(drop_duplicates(
                      [i \in 1..Len(file.rows) |->
                          [Producto |-> Strip(CellStr(CellAt(columns, file.rows[i], product_col))),
                           Precio_unitario |-> Precio(file.rows[i])]]))

\* load_ag_precios(ag_precios_path): None, or the list
load_ag_precios(file) ==
    IF file.state \in {"nopath", "missing"} THEN Returned(None)
    ELSE IF ReadError(file) # "" THEN Raised(ReadError(file))
    ELSE IF ~HasColumn(file.columns, Chars("Producto"))
            \/ ~HasColumn(file.columns, Chars("Precio unitario"))
    THEN Returned(None)
    ELSE Returned(Some(drop_duplicates(
             [i \in 1..Len(file.rows) |->
                 [Producto |-> Strip(CellStr(CellAt(file.columns, file.rows[i], Chars("Producto")))),
                  Precio_unitario |-> PriceOf(to_numeric(CellAt(file.columns, file.rows[i],
                                                                 Chars("Precio unitario"))))]])))

CallLoadPrecios ==
    /\ call.fn = "load_precios"
    /\ ret = None
    /\ ret' = Some(load_precios(call.file))
    /\ UNCHANGED <<mainVars, call, stepVars>>

CallLoadAgPrecios ==
    /\ call.fn = "load_ag_precios"
    /\ ret = None
    /\ ret' = Some(load_ag_precios(call.file))
    /\ UNCHANGED <<mainVars, call, stepVars>>

MaxPriceRows == 2      \* rows of a price spreadsheet

\* the column layouts of the price spreadsheets of the model
PriceLayouts ==
    {<<Chars("NOMBRE WANSOFT"), Chars("PRECIO DRIVE"), Chars("UNIDAD"), Chars("PRESENTACION")>>,
     <<Chars("NOMBRE WANSOFT"), Chars("PRECIO DRIVE"), Chars("UNIDAD")>>,
     <<Chars("NOMBRE WANSOFT"), Chars("PRECIO DRIVE"), Chars("PRESENTACION")>>,
     <<Chars("NOMBRE WANSOFT"), Chars("PRECIO UNITARIO"), Chars("PRECIO DRIVE"),
       Chars("UNIDAD"), Chars("PRESENTACION")>>,
     <<Chars("Producto"), Chars("PRECIO DRIVE")>>,
     <<Chars("Producto"), Chars("Precio unitario")>>,
     <<Chars("Producto"), Chars("UNIDAD")>>,
     <<Chars("PRECIO DRIVE"), Chars("UNIDAD"), Chars("PRESENTACION")>>,
     <<Chars("Precio unitario")>>}

\* what a row of a price spreadsheet holds: the name, the listed price, the
\* unit, the pack size
PriceRowNames == {"Pan", " Pan ", "PAN"}
PriceRowValues ==
    {<<NumCell(6), StrCell("PZ"), NumCell(2)>>,
     <<NumCell(6), StrCell(" pz "), NumCell(2)>>,
     <<NumCell(6), StrCell("PZ"), NumCell(0)>>,
     <<NumCell(6), StrCell("PZ"), NanCell>>,
     <<NumCell(8), StrCell("KG"), NumCell(2)>>,
     <<NumCell(8), StrCell("LT"), NumCell(2)>>,
     <<NanCell, StrCell("PZ"), NumCell(2)>>}

\* the cell of the row under a column; PRECIO UNITARIO holds the listed price
\* less one
PriceCell(column, name, values) ==
    CASE column \in {Chars("NOMBRE WANSOFT"), Chars("Producto")} -> StrCell(name)
      [] column \in {Chars("PRECIO DRIVE"), Chars("Precio unitario")} -> values[1]
      [] column = Chars("PRECIO UNITARIO") ->
             IF values[1].kind = "num" THEN NumCell(values[1].num - 1) ELSE values[1]
      [] column = Chars("UNIDAD") -> values[2]
      [] column = Chars("PRESENTACION") -> values[3]

\* the first sheet with the columns of a layout and the rows of rs
PriceSheet(columns, rs) ==
    [state |-> "sheet", columns |-> columns,
     rows |-> [i \in 1..Len(rs) |->
                  [j \in 1..Len(columns) |-> PriceCell(columns[j], rs[i][1], rs[i][2])]]]

\* no path given, no file at the path, a file that is not a spreadsheet
NoSheets == [state : {"nopath", "missing", "unreadable"}, columns : {<< >>}, rows : {<< >>}]

InitLoaders ==
    /\ MainIdle
    /\ StepIdle
    /\ \E fn \in {"load_precios", "load_ag_precios"} :
           \/ \E file \in NoSheets :
                  /\ fn = "load_precios" => file.state # "nopath"
                  /\ call = [fn |-> fn, file |-> file]
           \/ \E columns \in PriceLayouts :
                  \E k \in 0..MaxPriceRows : \E rs \in [1..k -> PriceRowNames \X PriceRowValues] :
                      call = [fn |-> fn, file |-> PriceSheet(columns, rs)]
    /\ ret = None

NextLoaders == CallLoadPrecios \/ CallLoadAgPrecios

SpecLoaders == InitLoaders /\ [][NextLoaders]_vars

\* the list a loader returned
LoadedList ==
    IF call.fn = "load_precios" THEN ret[1].value
    ELSE IF ret[1].value = None THEN << >> ELSE ret[1].value[1]

\* a loader returned
LoaderReturned ==
    /\ call.fn \in {"load_precios", "load_ag_precios"}
    /\ ret # None
    /\ ret[1].raised = ""

\* C13 as stated: the list load_precios returns, and the one load_ag_precios
\* returns, has at most one entry per normalized product key
CexC13 ==
    LoaderReturned
    => \A i, j \in 1..Len(LoadedList) :
           normalize_producto_for_match(LoadedList[i].Producto)
               = normalize_producto_for_match(LoadedList[j].Producto)
           => i = j

\* load_precios read a sheet with a product column and priced it from PRECIO DRIVE
PricedFromDrive ==
    /\ call.fn = "load_precios"
    /\ call.file.state = "sheet"
    /\ HasColumn(call.file.columns, Chars("NOMBRE WANSOFT"))
           \/ HasColumn(call.file.columns, Chars("Producto"))
    /\ ~HasColumn(call.file.columns, Chars("PRECIO UNITARIO"))
    /\ HasColumn(call.file.columns, Chars("PRECIO DRIVE"))

\* the name in the product column of a row
ListedName(row) ==
    Strip(CellStr(CellAt(call.file.columns, row,
                         IF HasColumn(call.file.columns, Chars("NOMBRE WANSOFT"))
                         THEN Chars("NOMBRE WANSOFT") ELSE Chars("Producto"))))

\* the first row of the sheet with the name of the entry
RowOfEntry(e) ==
    call.file.rows[CHOOSE i \in 1..Len(call.file.rows) :
                       /\ ListedName(call.file.rows[i]) = e.Producto
                       /\ \A k \in 1..(i - 1) : ListedName(call.file.rows[k]) # e.Producto]

\* the unit of the row is PZ and its pack size a number above 0
PackagedRow(row) ==
    /\ HasColumn(call.file.columns, Chars("UNIDAD"))
    /\ HasColumn(call.file.columns, Chars("PRESENTACION"))
    /\ Upper(Strip(CellStr(CellAt(call.file.columns, row, Chars("UNIDAD"))))) = Chars("PZ")
    /\ CellAt(call.file.columns, row, Chars("PRESENTACION")).kind = "num"
    /\ CellAt(call.file.columns, row, Chars("PRESENTACION")).num > 0

\* C15: an entry load_precios prices from PRECIO DRIVE has the listed price
\* divided by the pack size when the unit is PZ and the pack size is a number
\* above 0, and the listed price as it is in every other case: unit LT or KG,
\* pack size missing or not above 0, no UNIDAD or no PRESENTACION column
ThmC15 ==
    (PricedFromDrive /\ ret # None)
    => /\ ret[1].raised = ""
       /\ \A k \in 1..Len(ret[1].value) :
              LET e == ret[1].value[k]
                  row == RowOfEntry(e)
                  listed == CellAt(call.file.columns, row, Chars("PRECIO DRIVE"))
              IN  e.Precio_unitario =
                      IF listed.kind # "num" THEN NaNPrice
                      ELSE IF PackagedRow(row)
                      THEN Quot(listed.num, CellAt(call.file.columns, row, Chars("PRESENTACION")).num)
                      ELSE Quot(listed.num, 1)

\* a sheet with a PZ row of pack size 2 and a KG row of pack size 2: the first
\* entry has 6 / 2, the second 8
WitC15 ==
    /\ PricedFromDrive
    /\ Len(call.file.rows) = 2
    /\ PackagedRow(call.file.rows[1])
    /\ ~PackagedRow(call.file.rows[2])
    /\ CellAt(call.file.columns, call.file.rows[2], Chars("PRESENTACION")) = NumCell(2)
    /\ ret # None /\ ret[1].raised = ""
    /\ Len(ret[1].value) = 2
    /\ ret[1].value[1].Precio_unitario = Quot(6, 2)
    /\ ret[1].value[2].Precio_unitario = Quot(8, 1)

\* the sheet has no column load_precios takes the product from, none it takes
\* the price from
NoProductColumn ==
    /\ ~HasColumn(call.file.columns, Chars("NOMBRE WANSOFT"))
    /\ ~HasColumn(call.file.columns, Chars("Producto"))
NoPriceColumn ==
    /\ ~HasColumn(call.file.columns, Chars("PRECIO UNITARIO"))
    /\ ~HasColumn(call.file.columns, Chars("PRECIO DRIVE"))
    /\ ~HasColumn(call.file.columns, Chars("Precio unitario"))

\* C16 as stated: load_precios ends in an error and returns no list whenever
\* the sheet has no product column (NOMBRE WANSOFT, Producto) or no price
\* column (PRECIO UNITARIO, PRECIO DRIVE, Precio unitario)
CexC16 ==
    (call.fn = "load_precios" /\ call.file.state = "sheet" /\ ret # None
        /\ (NoProductColumn \/ NoPriceColumn))
    => ret[1].raised # ""

\* C17 as stated: load_ag_precios returns an empty result and never raises
\* when no path is given, the file does not exist, the file cannot be read as
\* a spreadsheet, or Producto or Precio unitario is missing
CexC17 ==
    (call.fn = "load_ag_precios" /\ ret # None
        /\ (\/ call.file.state \in {"nopath", "missing", "unreadable"}
            \/ ~HasColumn(call.file.columns, Chars("Producto"))
            \/ ~HasColumn(call.file.columns, Chars("Precio unitario"))))
    => /\ ret[1].raised = ""
       /\ ret[1].value = None \/ ret[1].value = Some(<< >>)

-----------------------------------------------------------------------------
(* Order ids.  The rows of main carry the column Orden of the branch files;  *)
(* filter_orders_for_gold_alignment is called on its own, as the gold-week   *)
(* investigation calls it on the rows apply_prices returned.                 *)

AG_EXCLUDED_ORDERS ==
    {Chars("9980-11588-2609294"), Chars("9980-11588-2609295"), Chars("9980-11588-2609296")}
PT_EXCLUDED_ORDERS ==
    {Chars("9982-11588-2607562"), Chars("9982-11588-2607690")}

\* the mask of the rows to drop with no test of the origin, in its place
mask_excl_any_origin(row) ==
    Strip(row.Orden) \in AG_EXCLUDED_ORDERS \cup PT_EXCLUDED_ORDERS

\* mask_ag_excl | mask_pt_excl of a row
mask_excl(row) ==
    LET origen == AlmacenOrigenUpper(row.Almacen_origen)
        orden_str == Strip(row.Orden)
    IN  \/ Contains(origen, Chars("ALMACEN GENERAL")) /\ orden_str \in AG_EXCLUDED_ORDERS
        \/ Contains(origen, Chars("ALMACEN PRODUCTO TERMINADO")) /\ orden_str \in PT_EXCLUDED_ORDERS

\* filter_orders_for_gold_alignment(df) on rows whose origin column is not
\* named Almacen_origen, as in the branch files: the column the function adds
\* under that name is Almacen_origen_upper here, the column of the files being
\* Almacen_origen throughout
filter_orders_for_gold_alignment(df) ==
    IF df = << >> THEN df
    ELSE IF "Almacen_origen" \notin DOMAIN df[1] THEN df
    ELSE LET with == [i \in 1..Len(df) |->
                         df[i] @@ ("Almacen_origen_upper" :> AlmacenOrigenUpper(df[i].Almacen_origen))]
         IN  IF "Orden" \notin DOMAIN df[1] THEN with
             ELSE SelectSeq(with, LAMBDA r : ~mask_excl(r))

CallFilterOrders ==
    /\ call.fn = "filter_orders_for_gold_alignment"
    /\ ret = None
    /\ ret' = Some(Returned(filter_orders_for_gold_alignment(call.df)))
    /\ UNCHANGED <<mainVars, call, stepVars>>

MaxOrderLines == 2     \* rows of the batch, rows of the filtered frame

OrderIds ==
    {Chars("9980-11588-2609294"), Chars(" 9980-11588-2609294 "),
     Chars("9982-11588-2607562"), Chars("1001")}

\* a row with the columns of cols only
Project(row, cols) == [c \in cols |-> row[c]]

\* rows of the branch files with their order ids
OrderRows(origins, files) ==
    {r @@ ("Orden" :> o) :
        r \in TransferRows({Chars("Pan")}, origins, {"Branch A"}, {2}, {2}, {0}, files),
        o \in OrderIds}

\* the rows of the frames the filter is called on
FilterRows ==
    {Project(r, DOMAIN r \ {"file"}) : r \in OrderRows(Origins \cup {" almacen general "}, {1})}

\* main with order ids on its rows, or the filter called on a frame of up to
\* MaxOrderLines rows with all their columns, without Orden, or without the
\* origin
InitOrders ==
    \/ /\ InitWith(SeqsUpTo(OrderRows({"ALMACEN GENERAL", "ALMACEN PRODUCTO TERMINADO"}, {1, 2}),
                            MaxOrderLines),
                   {<<[Producto |-> Chars("Pan"), Precio_unitario |-> 3]>>},
                   {None})
       /\ include_cedis_dest = FALSE
    \/ /\ MainIdle
       /\ StepIdle
       /\ \E k \in 0..MaxOrderLines : \E df \in [1..k -> FilterRows] :
              \E dropped \in {{}, {"Orden"}, {"Almacen_origen"}} :
                  call = [fn |-> "filter_orders_for_gold_alignment",
                          df |-> [i \in 1..k |-> Project(df[i], DOMAIN df[i] \ dropped)]]
       /\ ret = None

NextOrders == Next \/ CallFilterOrders

SpecOrders == InitOrders /\ [][NextOrders]_vars

\* the rows main read for the week of a frame of all_transfers
WeekInput(frame) == read_and_concat_transfers(WeekIndex(frame[1].Week))

\* every row main read for the week has its row in the frame, Orden unchanged
AllLinesIn(frame) ==
    \A i \in 1..Len(WeekInput(frame)) :
        \E k \in 1..Len(frame) :
            /\ frame[k].src = i
            /\ frame[k].Orden = WeekInput(frame)[i].Orden
            /\ frame[k].Almacen_origen = WeekInput(frame)[i].Almacen_origen

\* the weekly totals, once computed, sum the cost of every row main read for
\* the week (the price list of this specification matches each row once, and
\* no row goes to the hub)
AggregatesCountAllLines ==
    weekly_report # EmptyFrame
    => \A w \in 1..NumWeeks :
           read_and_concat_transfers(w) # << >>
           => \E i \in 1..Len(weekly_report.rows) :
                  /\ weekly_report.rows[i].Week = WeekLabels[w]
                  /\ weekly_report.rows[i].Total_Before
                         = SumOf(read_and_concat_transfers(w), "Costo")

\* the line is to go: its order id is in the exclusion set of its origin class
Excluded(row) ==
    \/ /\ Contains(Upper(Strip(Chars(row.Almacen_origen))), Chars("ALMACEN GENERAL"))
       /\ \E o \in AG_EXCLUDED_ORDERS : Strip(row.Orden) = o
    \/ /\ Contains(Upper(Strip(Chars(row.Almacen_origen))), Chars("ALMACEN PRODUCTO TERMINADO"))
       /\ \E o \in PT_EXCLUDED_ORDERS : Strip(row.Orden) = o

\* the rows of a frame with both columns that are not to go, in their order
RECURSIVE Remaining(_)
Remaining(df) ==
    IF df = << >> THEN << >>
    ELSE IF {"Orden", "Almacen_origen"} \subseteq DOMAIN Head(df) /\ Excluded(Head(df))
    THEN Remaining(Tail(df))
    ELSE <<Head(df)>> \o Remaining(Tail(df))

\* C20: in main every line of a processed week is in the frame written as the
\* per-week CSV and in the frames the aggregates are computed from, whatever
\* its order id; filter_orders_for_gold_alignment, called on its own, removes
\* a line exactly when its order id is in the exclusion set of its origin
\* class (the AG set for ALMACEN GENERAL lines, the PT set for ALMACEN
\* PRODUCTO TERMINADO lines) and keeps the other lines as they are
ThmC20 ==
    /\ call.fn = "main"
           => /\ \A k \in 1..Len(all_transfers) : AllLinesIn(all_transfers[k])
              /\ df_updated # << >> => AllLinesIn(df_updated)
              /\ AggregatesCountAllLines
    /\ (call.fn = "filter_orders_for_gold_alignment" /\ ret # None)
           => /\ ret[1].raised = ""
              /\ [i \in 1..Len(ret[1].value) |->
                     Project(ret[1].value[i], DOMAIN ret[1].value[i] \ {"Almacen_origen_upper"})]
                     = Remaining(call.df)

\* a run of main over a week with a general-warehouse line and a finished-goods
\* line, each with an order id of the exclusion set of its origin class: both
\* are in the frame of the week and in the weekly totals
WitC20 ==
    /\ call.fn = "main"
    /\ pc = "done"
    /\ Len(batch) = 2
    /\ batch[1].file = batch[2].file
    /\ IsAGOf[batch[1].Almacen_origen] /\ batch[1].Orden \in AG_EXCLUDED_ORDERS
    /\ ~IsAGOf[batch[2].Almacen_origen] /\ batch[2].Orden \in PT_EXCLUDED_ORDERS
    /\ Len(all_transfers) = 1
    /\ Len(all_transfers[1]) = 2
    /\ weekly_report # EmptyFrame
    /\ weekly_report.rows[1].Total_Before = batch[1].Costo + batch[2].Costo

-----------------------------------------------------------------------------
(* Writing an output file.  A file holds the sequence of the chunks written  *)
(* to it; disk.target is the file at the output path and disk.tmp the        *)
(* temporary file next to it, each None while it does not exist.  A call     *)
(* runs one file operation per step; any operation may fail with OSError,    *)
(* the process may be killed between two steps, and a reader may read the    *)
(* output path between any two steps.                                        *)

MaxChunks == 2         \* chunks of the content written

\* the writers that go through a temporary file, and those that write the
\* output path itself
AtomicWriters == {"atomic_write_csv", "atomic_write_text"}
DirectWriters == {"save_weekly_csv", "main.price_changes"}

\* a file after one more chunk is written to it
WithChunk(file, chunk) == Some((IF file = None THEN << >> ELSE file[1]) \o <<chunk>>)

\* the file a writer writes its content to, were every writer to write the
\* output path itself
DestOf_target(fn) == "target"

\* the file a writer writes its content to
DestOf(fn) == IF fn \in AtomicWriters THEN "tmp" ELSE "target"

\* the exception the call ends with: the pending one, or none
Outcome(err) == IF err = "" THEN Returned(None) ELSE Raised(err)

\* path.parent.mkdir(parents=True, exist_ok=True)
Mkdir ==
    /\ proc.pc = "mkdir"
    /\ proc' = [proc EXCEPT !.pc = IF call.fn \in AtomicWriters THEN "mkstemp" ELSE "open"]
    /\ UNCHANGED <<mainVars, call, ret, disk>>

\* tempfile.mkstemp(...); os.close(fd): the temporary file exists and is empty
Mkstemp ==
    /\ proc.pc = "mkstemp"
    /\ disk' = [disk EXCEPT !.tmp = Some(<< >>)]
    /\ proc' = [proc EXCEPT !.pc = "write"]
    /\ UNCHANGED <<mainVars, call, ret>>

\* to_csv opens the output path for writing: the file exists and is empty
OpenFile ==
    /\ proc.pc = "open"
    /\ disk' = [disk EXCEPT !.target = Some(<< >>)]
    /\ proc' = [proc EXCEPT !.pc = "write"]
    /\ UNCHANGED <<mainVars, call, ret>>

\* to_csv / write_text write the next chunk of the content
WriteChunk ==
    /\ proc.pc = "write"
    /\ proc.written < Len(call.content)
    /\ disk' = [disk EXCEPT ![DestOf(call.fn)] = WithChunk(@, call.content[proc.written + 1])]
    /\ proc' = [proc EXCEPT !.written = @ + 1]
    /\ UNCHANGED <<mainVars, call, ret>>

\* the content is written and the file closed: a direct writer returns, the
\* others go on to the rename
CloseFile ==
    /\ proc.pc = "write"
    /\ proc.written = Len(call.content)
    /\ IF call.fn \in AtomicWriters
       THEN /\ proc' = [proc EXCEPT !.pc = "replace"]
            /\ UNCHANGED ret
       ELSE /\ proc' = [proc EXCEPT !.pc = "done"]
            /\ ret' = Some(Returned(None))
    /\ UNCHANGED <<mainVars, call, disk>>

\* tmp.replace(path): the rename puts the temporary file at the output path
Replace ==
    /\ proc.pc = "replace"
    /\ disk' = [target |-> disk.tmp, tmp |-> None]
    /\ proc' = [proc EXCEPT !.pc = "finally"]
    /\ UNCHANGED <<mainVars, call, ret>>

\* a file operation raises OSError: inside the try block the finally clause
\* runs next, elsewhere the call ends
Fail ==
    /\ proc.pc \in {"mkdir", "mkstemp", "open", "write", "replace"}
    /\ IF call.fn \in AtomicWriters /\ proc.pc \in {"write", "replace"}
       THEN /\ proc' = [proc EXCEPT !.pc = "finally", !.err = "OSError"]
            /\ UNCHANGED ret
       ELSE /\ proc' = [proc EXCEPT !.pc = "done", !.err = "OSError"]
            /\ ret' = Some(Raised("OSError"))
    /\ UNCHANGED <<mainVars, call, disk>>

\* the finally clause: if tmp.exists(), tmp.unlink(), whose OSError is passed
\* over; then the call returns or raises the pending exception
Finally ==
    /\ proc.pc = "finally"
    /\ \E unlinked \in BOOLEAN :
          /\ disk.tmp = None => unlinked
          /\ disk' = [disk EXCEPT !.tmp = IF unlinked THEN None ELSE @]
          /\ proc' = [proc EXCEPT !.pc = "done", !.unlink_failed = ~unlinked]
    /\ ret' = Some(Outcome(proc.err))
    /\ UNCHANGED <<mainVars, call>>

\* the process is killed between two steps
Crash ==
    /\ proc.pc \notin {"done", "crashed"}
    /\ proc' = [proc EXCEPT !.pc = "crashed"]
    /\ UNCHANGED <<mainVars, call, ret, disk>>

\* another process reads the output path
ReadTarget ==
    /\ disk.target \notin proc.seen
    /\ proc' = [proc EXCEPT !.seen = @ \cup {disk.target}]
    /\ UNCHANGED <<mainVars, call, ret, disk>>

\* contents of up to MaxChunks chunks
NewContents == UNION {[1..n -> {1, 2}] : n \in 0..MaxChunks}

\* a writer is called with some content on an output path that holds a
\* previous artifact or nothing
InitFiles ==
    /\ MainIdle
    /\ call \in [fn : AtomicWriters \cup DirectWriters,
                 content : NewContents,
                 previous : {None, Some(<<0>>)}]
    /\ ret = None
    /\ disk = [target |-> call.previous, tmp |-> None]
    /\ proc = [pc |-> "mkdir", written |-> 0, err |-> "", unlink_failed |-> FALSE, seen |-> {}]

NextFiles ==
    \/ Mkdir
    \/ Mkstemp
    \/ OpenFile
    \/ WriteChunk
    \/ CloseFile
    \/ Replace
    \/ Fail
    \/ Finally
    \/ Crash
    \/ ReadTarget

SpecFiles == InitFiles /\ [][NextFiles]_vars

\* what a reader may see of the output path: the previous artifact (or no
\* file), or the complete new content
WholeContents == {call.previous, Some(call.content)}

\* every reading so far, and a reading now, gave a whole content
ReaderSawWhole == proc.seen \cup {disk.target} \subseteq WholeContents

CexC22 ==
    call.fn \in DirectWriters
    => /\ ReaderSawWhole
       /\ proc.pc = "crashed" => disk.target \in WholeContents

-----------------------------------------------------------------------------
(* Sending a document to Telegram.  The job sends its documents one after    *)
(* the other; each requests.post ends with one of the outcomes below, chosen *)
(* by the network.  Seconds are counted in halves, so that the default       *)
(* backoff_s of 1.5 is 3.                                                    *)

MaxRetries == 2        \* --retries

\* the senders, and the number of documents the job of each sends
Senders == {"send_document_via_telegram", "send_csv_via_telegram"}
DocsOf(fn) == IF fn = "send_document_via_telegram" THEN 2 ELSE 1

\* the exceptions of an attempt that send_document_via_telegram catches, and
\* one it does not (j.get on a JSON body that is not an object)
CaughtErrors == {"RequestException", "RuntimeError", "OSError"}
UncaughtErrors == {"AttributeError"}
\* what requests.post and the checks after it end with
PostOutcomes(fn) ==
    IF fn = "send_document_via_telegram"
    THEN {"ok"} \cup CaughtErrors \cup UncaughtErrors
    ELSE {"ok", "RequestException", "HTTPError", "OSError"}

\* the timeout passed to requests.post: timeout_s, or none at all
TimeoutOf(fn, timeout_s) == IF fn = "send_document_via_telegram" THEN Some(timeout_s) ELSE None

RECURSIVE Pow2(_)
Pow2(k) == IF k = 0 THEN 1 ELSE 2 * Pow2(k - 1)

\* the wait after a failed attempt, were it the same after every attempt
sleep_s_constant(backoff_s, attempt) == backoff_s

\* sleep_s = backoff_s * (2**attempt)
sleep_s(backoff_s, attempt) == backoff_s * Pow2(attempt)

\* a send begins: the attachment is looked for, and the loop is entered
BeginSend ==
    /\ proc.pc = "begin"
    /\ IF call.fn = "send_document_via_telegram" /\ ~call.exists
       THEN /\ ret' = Some(Raised("FileNotFoundError"))
            /\ proc' = [proc EXCEPT !.pc = "exit", !.exit = Some(1)]
       ELSE IF call.fn = "send_document_via_telegram" /\ call.retries + 1 <= 0
       THEN \* range(retries + 1) is empty: assert last_err is not None
            /\ ret' = Some(Raised("AssertionError"))
            /\ proc' = [proc EXCEPT !.pc = "exit", !.exit = Some(1)]
       ELSE /\ UNCHANGED ret
            /\ proc' = [proc EXCEPT !.pc = "post"]
    /\ UNCHANGED <<mainVars, call, disk>>

\* one attempt: the attachment is opened and posted, and the answer checked
Post ==
    /\ proc.pc = "post"
    /\ \E o \in PostOutcomes(call.fn) :
          LET p == [proc EXCEPT !.outcomes = Append(@, o),
                                   !.timeouts = @ \cup {TimeoutOf(call.fn, call.timeout_s)}]
          IN  IF o = "ok"
              THEN /\ proc' = [p EXCEPT !.pc = "returned"]
                   /\ ret' = Some(Returned(None))
              ELSE IF call.fn = "send_document_via_telegram" /\ o \in CaughtErrors
                        /\ proc.attempt < call.retries
              THEN /\ proc' = [p EXCEPT !.pc = "sleep"]
                   /\ UNCHANGED ret
              ELSE /\ proc' = [p EXCEPT !.pc = "exit", !.exit = Some(1)]
                   /\ ret' = Some(Raised(o))
    /\ UNCHANGED <<mainVars, call, disk>>

\* requests.post without a timeout on a connection that never answers
Hang ==
    /\ proc.pc = "post"
    /\ TimeoutOf(call.fn, call.timeout_s) = None
    /\ proc' = [proc EXCEPT !.pc = "hung", !.timeouts = @ \cup {None}]
    /\ UNCHANGED <<mainVars, call, ret, disk>>

\* time.sleep(sleep_s), then the next attempt
Sleep ==
    /\ proc.pc = "sleep"
    /\ proc' = [proc EXCEPT !.pc = "post",
                            !.slept = Append(@, sleep_s(call.backoff_s, proc.attempt)),
                            !.attempt = @ + 1]
    /\ UNCHANGED <<mainVars, call, ret, disk>>

\* the send returned: the job sends its next document, or ends with status 0
AfterSend ==
    /\ proc.pc = "returned"
    /\ IF proc.doc < DocsOf(call.fn)
       THEN /\ proc' = [proc EXCEPT !.pc = "begin", !.doc = @ + 1, !.attempt = 0,
                                    !.outcomes = << >>, !.slept = << >>]
            /\ ret' = None
       ELSE /\ proc' = [proc EXCEPT !.pc = "exit", !.exit = Some(0)]
            /\ UNCHANGED ret
    /\ UNCHANGED <<mainVars, call, disk>>

InitTelegram ==
    /\ MainIdle
    /\ disk = << >>
    /\ call \in [fn : Senders, exists : BOOLEAN, timeout_s : {2, 60},
                 retries : (0 - 1)..MaxRetries, backoff_s : {0, 3}]
    \* send_csv_via_telegram has no such parameters
    /\ call.fn = "send_csv_via_telegram"
           => call.timeout_s = 60 /\ call.retries = 0 /\ call.backoff_s = 0
    /\ ret = None
    /\ proc = [pc |-> "begin", doc |-> 1, attempt |-> 0, outcomes |-> << >>,
               slept |-> << >>, timeouts |-> {}, exit |-> None]

NextTelegram ==
    \/ BeginSend
    \/ Post
    \/ Hang
    \/ Sleep
    \/ AfterSend

\* every post with a timeout and every sleep ends, so a step that can be
\* taken is taken
SpecTelegram == InitTelegram /\ [][NextTelegram]_vars /\ WF_vars(NextTelegram)

\* the attempts of the send under way, or of the last one
Attempts == Len(proc.outcomes)

\* the send under way has ended: it returned or raised
SendEnded == proc.pc \in {"returned", "exit"} /\ ret # None

\* at most retries + 1 attempts, each with the request timeout, none after a
\* successful one
BoundedAttempts ==
    /\ Attempts <= (IF call.retries + 1 > 0 THEN call.retries + 1 ELSE 0)
    /\ proc.timeouts \subseteq {Some(call.timeout_s)}
    /\ \A i \in 1..Attempts : proc.outcomes[i] = "ok" => i = Attempts /\ SendEnded

\* after the k-th failed attempt, k from 0, the wait before the next one is
\* backoff_s x 2^k, and there is no wait after the last attempt
BackoffWaits ==
    /\ \A k \in 1..Len(proc.slept) : proc.slept[k] = call.backoff_s * Pow2(k - 1)
    /\ proc.pc = "post" => Len(proc.slept) = Attempts
    /\ proc.pc = "sleep" => Len(proc.slept) = Attempts - 1
    /\ (SendEnded /\ Attempts > 0) => Len(proc.slept) = Attempts - 1

\* when every attempt failed the send raises the last error, and the job ends
\* with a failure status
RaisesLastError ==
    (SendEnded /\ Attempts > 0 /\ \A i \in 1..Attempts : proc.outcomes[i] # "ok")
    => /\ ret = Some(Raised(proc.outcomes[Attempts]))
       /\ proc.exit = Some(1)

\* C23: send_document_via_telegram makes at most retries + 1 attempts, each
\* with the request timeout, and stops at the first successful one; after the
\* k-th failed attempt it waits backoff_s x 2^k before the next and does not
\* wait after the last; when every attempt fails it terminates by raising the
\* last error, which ends the job with a failure status
ThmC23 ==
    /\ [](call.fn = "send_document_via_telegram"
            => BoundedAttempts /\ BackoffWaits /\ RaisesLastError)
    /\ (call.fn = "send_document_via_telegram") ~> (proc.pc = "exit")

\* three failed attempts with waits of 1.5 s and 3 s between them, then the
\* last error raised and the job ended with status 1
WitC23 ==
    /\ call.fn = "send_document_via_telegram"
    /\ call.retries = 2
    /\ call.backoff_s = 3
    /\ proc.outcomes = <<"RequestException", "RuntimeError", "RequestException">>
    /\ proc.slept = <<3, 6>>
    /\ ret = Some(Raised("RequestException"))
    /\ proc.exit = Some(1)

\* C24 as stated: every Telegram send, the weekly sales report send
\* (send_csv_via_telegram) included, uses a bounded request timeout and
\* retries a failed send a fixed number of times with exponential backoff
\* before it fails
CexC24 ==
    call.fn = "send_csv_via_telegram"
    => /\ None \notin proc.timeouts
       /\ (ret # None /\ ret[1].raised # "") => Attempts > 1

-----------------------------------------------------------------------------
(* The daily payments table (weekly_payments.py).  A row holds its branch    *)
(* (the characters of sucursal), its day (fecha, an ordinal, already at      *)
(* midnight) and the three payment columns, each None where the cell is      *)
(* empty.  The table has the required columns and no ingreso_total column.   *)

MaxBranches == 2       \* branches of the payments table

LAST_WEEK_DAYS == 7

\* pd.to_numeric(...).fillna(0) of a cell
FillNa(v) == IF v = None THEN 0 ELSE v[1]

\* the payment columns made numeric, and ingreso_total computed from them
WithTotal(r) ==
    [sucursal |-> r.sucursal, fecha |-> r.fecha,
     ingreso_efectivo |-> FillNa(r.ingreso_efectivo),
     ingreso_credito |-> FillNa(r.ingreso_credito),
     ingreso_debito |-> FillNa(r.ingreso_debito),
     ingreso_total |-> FillNa(r.ingreso_efectivo) + FillNa(r.ingreso_credito)
                           + FillNa(r.ingreso_debito)]

NumericPayments(df) == [i \in 1..Len(df) |-> WithTotal(df[i])]

\* (df[pay_cols + ["ingreso_total"]] < 0).any(axis=None)
AnyNegative(df) ==
    \E i \in 1..Len(df) :
        \/ df[i].ingreso_efectivo < 0 \/ df[i].ingreso_credito < 0
        \/ df[i].ingreso_debito < 0 \/ df[i].ingreso_total < 0

SameKey(a, b) == a.sucursal = b.sucursal /\ a.fecha = b.fecha

\* df.duplicated(subset=key_cols, keep=False).any()
AnyDuplicate(df) == \E i, j \in 1..Len(df) : i # j /\ SameKey(df[i], df[j])

\* the order of sort_values(["sucursal", "fecha"])
PaymentLess(a, b) ==
    \/ TextLess(a.sucursal, b.sucursal)
    \/ a.sucursal = b.sucursal /\ a.fecha < b.fecha

RECURSIVE InsertPayment(_, _)
InsertPayment(r, sorted) ==
    IF sorted = << >> THEN <<r>>
    ELSE IF PaymentLess(r, Head(sorted)) THEN <<r>> \o sorted
    ELSE <<Head(sorted)>> \o InsertPayment(r, Tail(sorted))

\* df.sort_values(["sucursal", "fecha"]): rows of one key keep their order
RECURSIVE SortPayments(_)
SortPayments(rows) ==
    IF rows = << >> THEN << >>
    ELSE InsertPayment(rows[Len(rows)], SortPayments(SubSeq(rows, 1, Len(rows) - 1)))

\* drop_duplicates(subset=key_cols, keep="first") of sorted rows
RECURSIVE KeepFirst(_)
KeepFirst(rows) ==
    IF Len(rows) < 2 THEN rows
    ELSE IF SameKey(rows[Len(rows) - 1], rows[Len(rows)])
    THEN KeepFirst(SubSeq(rows, 1, Len(rows) - 1))
    ELSE Append(KeepFirst(SubSeq(rows, 1, Len(rows) - 1)), rows[Len(rows)])

\* the sum of the numeric columns of the rows with the key of r
KeySum(r, df) ==
    [sucursal |-> r.sucursal, fecha |-> r.fecha,
     ingreso_efectivo |-> SumOf(SelectSeq(df, LAMBDA x : SameKey(x, r)), "ingreso_efectivo"),
     ingreso_credito |-> SumOf(SelectSeq(df, LAMBDA x : SameKey(x, r)), "ingreso_credito"),
     ingreso_debito |-> SumOf(SelectSeq(df, LAMBDA x : SameKey(x, r)), "ingreso_debito"),
     ingreso_total |-> SumOf(SelectSeq(df, LAMBDA x : SameKey(x, r)), "ingreso_total")]

\* groupby(key_cols, as_index=False, sort=True)[numeric_cols].sum()
GroupSum(df, firsts) == [i \in 1..Len(firsts) |-> KeySum(firsts[i], df)]

\* the handling of duplicated (sucursal, fecha): the table that goes on, or
\* ValueError
Deduped(df, dedupe) ==
    IF ~AnyDuplicate(df) THEN Returned(df)
    ELSE CASE dedupe = "raise" -> Raised("ValueError")
           [] dedupe = "first" -> Returned(KeepFirst(SortPayments(df)))
           [] dedupe = "sum" -> Returned(GroupSum(df, KeepFirst(SortPayments(df))))

\* the warnings logged up to the handling of duplicates
Warnings(df, dedupe) ==
    (IF AnyNegative(df) THEN <<"negative payment values">> ELSE << >>)
        \o (IF AnyDuplicate(df) /\ dedupe # "raise" THEN <<"duplicated keys">> ELSE << >>)

\* df["fecha"].max() of a table with rows
MaxFecha(df) == CHOOSE d \in {df[i].fecha : i \in 1..Len(df)} : \A i \in 1..Len(df) : df[i].fecha <= d

\* bad: the branches of last_week with fewer than 7 distinct days in it
CoverageGaps(df, asof) ==
    {b \in {df[i].sucursal : i \in {k \in 1..Len(df) : df[k].fecha >= asof - 6 /\ df[k].fecha <= asof}} :
        Cardinality({df[i].fecha : i \in {k \in 1..Len(df) :
                        /\ df[k].sucursal = b
                        /\ df[k].fecha >= asof - 6 /\ df[k].fecha <= asof}}) < LAST_WEEK_DAYS}

\* the table returned with the warnings logged on the way
Prepared(df, warnings) == Returned([df |-> SortPayments(df), warnings |-> warnings])

\* the as-of alignment and the coverage check of a table, asof_date given
Aligned(df, warnings, asof, strict_coverage) ==
    IF df = << >> \/ MaxFecha(df) # asof THEN Raised("ValueError")
    ELSE IF CoverageGaps(df, asof) = {} THEN Prepared(df, warnings)
    ELSE IF strict_coverage THEN Raised("ValueError")
    ELSE Prepared(df, Append(warnings, "coverage gap"))

\* the checks that follow the handling of duplicates
Checked(deduped, warnings, asof_date, strict_coverage) ==
    IF deduped.raised # "" THEN deduped
    ELSE IF asof_date = None THEN Prepared(deduped.value, warnings)
    ELSE Aligned(deduped.value, warnings, asof_date[1], strict_coverage)

\* the checks on the table with numeric columns
Validated(df, asof_date, dedupe, strict_coverage) ==
    Checked(Deduped(df, dedupe), Warnings(df, dedupe), asof_date, strict_coverage)

validate_and_prepare_payments(df, asof_date, dedupe, strict_coverage) ==
    Validated(NumericPayments(df), asof_date, dedupe, strict_coverage)

CallValidate ==
    /\ call.fn = "validate_and_prepare_payments"
    /\ ret = None
    /\ ret' = Some(validate_and_prepare_payments(call.df, call.asof_date, call.dedupe,
                                                  call.strict_coverage))
    /\ UNCHANGED <<mainVars, call, stepVars>>

\* the day the history ends at
AsOfDay == toordinal(2026, 2, 8)

BranchNames == <<Chars("KAVIA"), Chars("PV"), Chars("QIN"), Chars("HZ")>>

\* the days a branch has rows for: none, the seven days of the window, the
\* window with a gap, a day before the window only, the window and the day
\* before it, the window with its last day twice, the last day only
DayPatterns ==
    {<< >>,
     [i \in 1..7 |-> AsOfDay - 7 + i],
     <<AsOfDay - 6, AsOfDay - 5, AsOfDay - 4, AsOfDay - 2, AsOfDay - 1, AsOfDay>>,
     <<AsOfDay - 7>>,
     [i \in 1..8 |-> AsOfDay - 8 + i],
     [i \in 1..8 |-> IF i = 8 THEN AsOfDay ELSE AsOfDay - 7 + i],
     <<AsOfDay>>}

\* the rows of a branch on the days of a pattern; refund: the first row holds
\* a negative payment
BranchPayments(b, days, refund) ==
    [i \in 1..Len(days) |->
        [sucursal |-> b, fecha |-> days[i], ingreso_efectivo |-> Some(5),
         ingreso_credito |-> None,
         ingreso_debito |-> IF refund /\ i = 1 THEN Some(0 - 2) ELSE Some(0)]]

\* the table of the branches, one branch after the other
RECURSIVE PaymentsOf(_, _)
PaymentsOf(days, refund) ==
    IF days = << >> THEN << >>
    ELSE PaymentsOf(SubSeq(days, 1, Len(days) - 1), refund)
             \o BranchPayments(BranchNames[Len(days)], days[Len(days)], refund /\ Len(days) = 1)

InitPayments ==
    /\ MainIdle
    /\ StepIdle
    /\ \E days \in [1..MaxBranches -> DayPatterns], refund \in BOOLEAN,
          asof \in {None, Some(AsOfDay), Some(AsOfDay + 1)},
          dedupe \in {"raise", "sum", "first"}, strict \in BOOLEAN :
          call = [fn |-> "validate_and_prepare_payments", df |-> PaymentsOf(days, refund),
                  asof_date |-> asof, dedupe |-> dedupe, strict_coverage |-> strict]
    /\ ret = None

NextPayments == CallValidate

SpecPayments == InitPayments /\ [][NextPayments]_vars

\* the table holds duplicated (sucursal, fecha) rows or negative payments
DataQualityIssue == AnyDuplicate(NumericPayments(call.df)) \/ AnyNegative(NumericPayments(call.df))

\* C25 as stated: validate_and_prepare_payments never aborts because of
\* duplicated (sucursal, fecha) rows or negative payment values, under every
\* dedupe setting, the default included: the issue is logged and a prepared
\* table is returned (no as-of date: no other check can abort)
CexC25 ==
    (call.fn = "validate_and_prepare_payments" /\ ret # None
        /\ call.asof_date = None /\ DataQualityIssue)
    => /\ ret[1].raised = ""
       /\ ret[1].value.warnings # << >>

\* the branches of the table, and the days of a branch of a table in the
\* seven-day window that ends at the as-of date
BranchesOf(df) == {df[i].sucursal : i \in 1..Len(df)}
WindowDays(df, b, asof) ==
    {df[i].fecha : i \in {k \in 1..Len(df) :
        df[k].sucursal = b /\ df[k].fecha >= asof - 6 /\ df[k].fecha <= asof}}

\* C30 as stated: with strict_coverage, validate_and_prepare_payments fails
\* whenever a branch present in the data has fewer than 7 distinct days in the
\* 7-day window ending at the as-of date, a branch with no rows in the window
\* included; when it returns, every branch of the output has all 7 days
CexC30 ==
    (call.fn = "validate_and_prepare_payments" /\ ret # None
        /\ call.strict_coverage /\ call.asof_date # None)
    => /\ (\E b \in BranchesOf(call.df) :
              Cardinality(WindowDays(call.df, b, call.asof_date[1])) < 7)
          => ret[1].raised # ""
       /\ ret[1].raised = ""
          => \A b \in BranchesOf(ret[1].value.df) :
                Cardinality(WindowDays(ret[1].value.df, b, call.asof_date[1])) = 7

-----------------------------------------------------------------------------
(* main of weekly_with_prices.py from its arguments on: the weeks to process *)
(* are built, the price lists loaded, and each week fetched and written.     *)
(* proc records what the run has done so far.                                *)

WEEK_RANGES ==
    <<<<toordinal(2025, 12, 1), toordinal(2025, 12, 7)>>,
      <<toordinal(2025, 12, 8), toordinal(2025, 12, 14)>>,
      <<toordinal(2025, 12, 15), toordinal(2025, 12, 21)>>,
      <<toordinal(2025, 12, 22), toordinal(2025, 12, 28)>>,
      <<toordinal(2025, 12, 29), toordinal(2026, 1, 4)>>,
      <<toordinal(2026, 1, 5), toordinal(2026, 1, 11)>>,
      <<toordinal(2026, 1, 12), toordinal(2026, 1, 18)>>,
      <<toordinal(2026, 1, 19), toordinal(2026, 1, 25)>>,
      <<toordinal(2026, 1, 26), toordinal(2026, 2, 1)>>,
      <<toordinal(2026, 2, 2), toordinal(2026, 2, 7)>>>>

\* week_ranges[:-1] + [(date(2026, 2, 2), date(2026, 2, 8))] with --last-week-feb-8
ConfiguredWeeks(last_week_feb_8) ==
    IF last_week_feb_8
    THEN SubSeq(WEEK_RANGES, 1, Len(WEEK_RANGES) - 1)
             \o <<<<toordinal(2026, 2, 2), toordinal(2026, 2, 8)>>>>
    ELSE WEEK_RANGES

\* a window counted as inside [start_d, end_d] as soon as it starts in it
InRange_start(w, start_d, end_d) == w[1] >= start_d

\* s >= start_d and e <= end_d
InRange(w, start_d, end_d) == w[1] >= start_d /\ w[2] <= end_d

\* the configured windows inside [--start, --end]
LegacyWeeks(args) ==
    SelectSeq(ConfiguredWeeks(args.last_week_feb_8), LAMBDA w : InRange(w, args.start, args.end))

\* lines 553-572 of main: the weeks to process, exit status 1, or the
\* exception of build_week_ranges
WeeksOfArgs(args) ==
    IF args.weeks # None
    THEN IF args.weeks[1] <= 0 THEN [exit |-> Some(1), raised |-> "", weeks |-> << >>]
         ELSE [exit |-> None, raised |-> build_week_ranges(args.end, args.weeks[1]).raised,
               weeks |-> build_week_ranges(args.end, args.weeks[1]).value]
    ELSE [exit |-> IF LegacyWeeks(args) = << >> THEN Some(1) ELSE None,
          raised |-> "", weeks |-> LegacyWeeks(args)]

\* what main does with the weeks it built
AfterWeeks(w) ==
    IF w.raised # "" THEN [proc EXCEPT !.pc = "exit", !.exit = Some(1), !.raised = w.raised]
    ELSE IF w.exit # None THEN [proc EXCEPT !.pc = "exit", !.exit = w.exit]
    ELSE IF w.weeks = << >> THEN [proc EXCEPT !.pc = "exit", !.exit = Some(1)]
    ELSE [proc EXCEPT !.pc = "load", !.weeks = w.weeks]

\* main up to line 572
BuildWeeks ==
    /\ call.fn = "weekly_with_prices.main"
    /\ proc.pc = "args"
    /\ proc' = AfterWeeks(WeeksOfArgs(call))
    /\ UNCHANGED <<mainVars, call, ret, disk>>

\* lines 574-581: the two price lists are loaded; a loader may raise
LoadPriceLists ==
    /\ proc.pc = "load"
    /\ \/ proc' = [proc EXCEPT !.pc = "week", !.loaded = TRUE]
       \/ proc' = [proc EXCEPT !.pc = "exit", !.loaded = TRUE, !.exit = Some(1),
                               !.raised = "Exception"]
    /\ UNCHANGED <<mainVars, call, ret, disk>>

\* one pass of the loop: the week is fetched and, unless it has no rows, its
\* two files are written
ProcessWeek ==
    /\ proc.pc = "week"
    /\ proc.weeks # << >>
    /\ \E empty \in BOOLEAN :
          proc' = [proc EXCEPT !.weeks = Tail(@), !.fetched = @ \cup {Head(proc.weeks)},
                               !.written = IF empty THEN @ ELSE @ \cup {Head(proc.weeks)}]
    /\ UNCHANGED <<mainVars, call, ret, disk>>

\* lines 610-641: the reports are written if a week had rows, and main returns 0
EndMain ==
    /\ proc.pc = "week"
    /\ proc.weeks = << >>
    /\ proc' = [proc EXCEPT !.pc = "exit", !.exit = Some(0),
                            !.reports = proc.written # {}]
    /\ UNCHANGED <<mainVars, call, ret, disk>>

\* the values of --start and --end
ArgDates ==
    {toordinal(2025, 12, 1), toordinal(2025, 12, 3), toordinal(2026, 2, 1),
     toordinal(2026, 2, 7), toordinal(2026, 2, 8), toordinal(2030, 1, 1)}

InitArgs ==
    /\ MainIdle
    /\ disk = << >>
    /\ call \in [fn : {"weekly_with_prices.main"},
                 weeks : {None} \cup {Some(n) : n \in (0 - 1)..MaxWeeks},
                 start : ArgDates, end : ArgDates, last_week_feb_8 : BOOLEAN]
    /\ ret = None
    /\ proc = [pc |-> "args", exit |-> None, raised |-> "", weeks |-> << >>,
               loaded |-> FALSE, fetched |-> {}, written |-> {}, reports |-> FALSE]

NextArgs ==
    \/ BuildWeeks
    \/ LoadPriceLists
    \/ ProcessWeek
    \/ EndMain

SpecArgs == InitArgs /\ [][NextArgs]_vars

\* main has loaded no price list, fetched no data and written no file, and
\* when it has ended it returned 1
RejectedRun ==
    /\ proc.pc \in {"args", "exit"}
    /\ proc.pc = "exit" => proc.exit = Some(1) /\ proc.raised = ""
    /\ ~proc.loaded /\ proc.fetched = {} /\ proc.written = {} /\ ~proc.reports

\* no window of WEEK_RANGES lies inside [--start, --end]
NoConfiguredWindow ==
    \A i \in 1..Len(ConfiguredWeeks(call.last_week_feb_8)) :
        ~(/\ ConfiguredWeeks(call.last_week_feb_8)[i][1] >= call.start
          /\ ConfiguredWeeks(call.last_week_feb_8)[i][2] <= call.end)

\* C26 as stated: main returns 1 when --weeks is 0 or negative, or when no
\* configured window lies inside [--start, --end]; it then loads no price
\* list, fetches no data and writes no file
CexC26 ==
    (call.fn = "weekly_with_prices.main"
        /\ ((call.weeks # None /\ call.weeks[1] <= 0) \/ NoConfiguredWindow))
    => RejectedRun

\* C26 amended: main returns 1 when --weeks is 0 or negative, or when --weeks
\* is not given and no configured window lies inside [--start, --end]; it then
\* loads no price list, fetches no data and writes no file
ThmC26 ==
    (call.fn = "weekly_with_prices.main"
        /\ \/ call.weeks # None /\ call.weeks[1] <= 0
           \/ call.weeks = None /\ NoConfiguredWindow)
    => RejectedRun

\* --weeks 0, as in the test, and main has returned 1
WitC26 ==
    /\ call.fn = "weekly_with_prices.main"
    /\ call.weeks = Some(0)
    /\ proc.pc = "exit"
    /\ proc.exit = Some(1)
    /\ ~proc.loaded

-----------------------------------------------------------------------------
(* SpecSpaces: two finished-goods rows of one product, written with one      *)
(* space or with two spaces between its words, against a PT list that prices *)
(* it under one of the two spellings.                                        *)

SpaceNames == {Chars("Pan Dulce"), Chars("Pan  Dulce")}

InitSpaces ==
    /\ InitWith({<<a, b>> :
                    a \in TransferRows(SpaceNames, {"ALMACEN PRODUCTO TERMINADO"},
                                       {"Branch A"}, {2}, {2}, {0}, 1..NumWeeks),
                    b \in TransferRows(SpaceNames, {"ALMACEN PRODUCTO TERMINADO"},
                                       {"Branch A"}, {2}, {2}, {0}, 1..NumWeeks)},
                PriceLists(SpaceNames, {3}, 1) \ {<< >>},
                {None})
    /\ include_cedis_dest = FALSE

SpecSpaces == InitSpaces /\ [][Next]_vars

\* a text with every run of spaces cut to one space
RECURSIVE CollapseSpaces(_)
CollapseSpaces(t) ==
    IF Len(t) < 2 THEN t
    ELSE IF t[1] = " " /\ t[2] = " " THEN CollapseSpaces(Tail(t))
    ELSE <<t[1]>> \o CollapseSpaces(Tail(t))

\* C27 as stated: two product names that differ only in the length of runs of
\* internal whitespace have the same normalized key and are matched to the
\* same price-list entry
CexC27 ==
    \A r1, r2 \in RowsOf(combined) :
        CollapseSpaces(Strip(r1.Producto)) = CollapseSpaces(Strip(r2.Producto))
        => /\ NormOf[r1.Producto] = NormOf[r2.Producto]
           /\ r1.Costo_unitario = r2.Costo_unitario


-----------------------------------------------------------------------------
(* apply_prices: output lines against input lines *)

\* the input positions the lines of an apply_prices output were made from
SourcesOf(out) == [i \in 1..Len(out) |-> out[i].src]

\* C28: whenever apply_prices has just returned for a week, its output has
\* exactly one line per input line of the week, in input order, whatever the
\* PT and AG price lists hold (two entries with one normalized key included).
CexC28 ==
    pc = "applied"
    => SourcesOf(df_updated) = [i \in 1..Len(read_and_concat_transfers(wk)) |-> i]


-----------------------------------------------------------------------------
(* compare_unit_prices: the price-list update *)

\* Prices and differences of this part are counted in thousandths of a peso
\* and the coefficient of variation in thousandths; NaN is the missing value.
GOLD_MIN_REASONABLE == 100
GOLD_MAX_REASONABLE == 100000000
GOLD_CV_MAX == 500
RATIO_FLAG_REVIEW == 3
\* merged["Diff"].abs() > 0.01
DIFF_MIN == 10

MaxOurs == 2           \* entries of our price list
MaxGold == 2           \* products of the gold table

\* normalize_producto: s.astype(str).str.strip().str.lower()
normalize_producto(t) == Lower(Strip(t))

\* round(x, 2) of a price in thousandths (the inputs hold no exact half)
Round2(p) == ((p + 5) \div 10) * 10

is_gold_reasonable(p, cv) ==
    IF p = NaN \/ p < GOLD_MIN_REASONABLE \/ p > GOLD_MAX_REASONABLE THEN FALSE
    ELSE IF cv # NaN /\ cv > GOLD_CV_MAX THEN FALSE
    ELSE TRUE

\* merged["Diff"].abs(): missing when either price is missing
AbsDiff(ours_p, gold_p) ==
    IF ours_p = NaN \/ gold_p = NaN THEN NaN
    ELSE IF ours_p >= gold_p THEN ours_p - gold_p ELSE gold_p - ours_p

\* ratio = Gold_Precio / Ours_Precio.replace(0, nan);
\* (ratio > RATIO_FLAG_REVIEW) | (ratio < 1 / RATIO_FLAG_REVIEW), false on a
\* missing ratio
Flag_Review(ours_p, gold_p) ==
    IF ours_p = NaN \/ gold_p = NaN \/ ours_p = 0 THEN FALSE
    ELSE gold_p > RATIO_FLAG_REVIEW * ours_p \/ RATIO_FLAG_REVIEW * gold_p < ours_p

Use_Gold(ours_p, gold_p, cv) ==
    /\ is_gold_reasonable(gold_p, cv)
    /\ gold_p # NaN
    /\ AbsDiff(ours_p, gold_p) > DIFF_MIN
    /\ ~Flag_Review(ours_p, gold_p)

\* one row of the comparison; src is the position of our entry (0: gold only)
CompareRow(src, producto, ours_p, gold_p, cv) ==
    [src |-> src, Producto |-> producto, Ours_Precio |-> ours_p, Gold_Precio |-> gold_p,
     CV |-> cv, Gold_Reasonable |-> is_gold_reasonable(gold_p, cv),
     Flag_Review |-> Flag_Review(ours_p, gold_p),
     Use_Gold |-> Use_Gold(ours_p, gold_p, cv)]

\* the gold rows the outer merge joins to key `norm`
GoldHits(gold, norm) == SelectSeq(gold, LAMBDA g : normalize_producto(g.Producto) = norm)

\* the rows of the outer merge made from our entry i
OursRows(ours, gold, i, hits) ==
    IF hits = << >>
    THEN <<CompareRow(i, ours[i].Producto, ours[i].Precio_unitario, NaN, NaN)>>
    ELSE [k \in 1..Len(hits) |->
            CompareRow(i, ours[i].Producto, ours[i].Precio_unitario,
                       hits[k].Precio_unitario, hits[k].CV)]

RECURSIVE MatchedRows(_, _, _)
MatchedRows(ours, gold, i) ==
    IF i > Len(ours) THEN << >>
    ELSE OursRows(ours, gold, i, GoldHits(gold, normalize_producto(ours[i].Producto)))
         \o MatchedRows(ours, gold, i + 1)

\* the rows of the outer merge made from gold products we have no entry for
GoldOnlyRows(ours, gold) ==
    LET only == SelectSeq(gold, LAMBDA g :
                    \A i \in 1..Len(ours) :
                        normalize_producto(ours[i].Producto) # normalize_producto(g.Producto))
    IN  [k \in 1..Len(only) |->
            CompareRow(0, only[k].Producto, NaN, only[k].Precio_unitario, only[k].CV)]

\* merge_and_compare(ours, gold, origin).  Each of our entries joins at most
\* one gold product in the inputs drawn here, so the order of the rows of the
\* outer merge does not change what _build_new computes.
merge_and_compare(ours, gold) == MatchedRows(ours, gold, 1) \o GoldOnlyRows(ours, gold)

\* result.loc[mask, "Precio_unitario"] = round(gold_val, 2), with
\* mask = result["Producto"].astype(str).str.strip().str.lower() == prod.lower()
SetPrice(result, prod, gold_val) ==
    [i \in 1..Len(result) |->
        IF Lower(Strip(result[i].Producto)) = Lower(prod)
        THEN [result[i] EXCEPT !.Precio_unitario = Round2(gold_val)]
        ELSE result[i]]

\* for _, r in updates.iterrows(): ...
RECURSIVE Updated(_, _)
Updated(result, updates) ==
    IF updates = << >> THEN result
    ELSE Updated(SetPrice(result, Strip(Head(updates).Producto), Head(updates).Gold_Precio),
                 Tail(updates))

\* for _, r in gold_only.iterrows(): append the products not yet in the list
RECURSIVE WithGoldOnly(_, _)
WithGoldOnly(result, gold_only) ==
    IF gold_only = << >> THEN result
    ELSE WithGoldOnly(
            IF \E i \in 1..Len(result) :
                   Lower(Strip(result[i].Producto)) = Lower(Strip(Head(gold_only).Producto))
            THEN result
            ELSE Append(result, [Producto |-> Strip(Head(gold_only).Producto),
                                 Precio_unitario |-> Round2(Head(gold_only).Gold_Precio)]),
            Tail(gold_only))

\* drop_duplicates(subset=["Producto"], keep="first")
DropDuplicateProductos(result) ==
    SelectSeq([i \in 1..Len(result) |-> [row |-> result[i], at |-> i]],
              LAMBDA e : \A j \in 1..(e.at - 1) : result[j].Producto # e.row.Producto)

\* _build_new(ours, cmp, add_gold_only=True)
_build_new(ours, cmp) ==
    LET kept == DropDuplicateProductos(
                    WithGoldOnly(
                        Updated(ours, SelectSeq(cmp, LAMBDA r : r.Use_Gold)),
                        SelectSeq(cmp, LAMBDA r : r.Ours_Precio = NaN /\ r.Gold_Precio # NaN
                                                  /\ r.Gold_Reasonable)))
    IN  [i \in 1..Len(kept) |-> kept[i].row]

\* main: cmp_pt = merge_and_compare(precios, gold_pt, "PT")
MergeAndCompare ==
    /\ call.fn = "compare_unit_prices.main"
    /\ proc.pc = "compare"
    /\ call.gold # << >>
    /\ proc' = [proc EXCEPT !.pc = "build", !.cmp = merge_and_compare(call.ours, call.gold)]
    /\ UNCHANGED <<mainVars, call, ret, disk>>

\* main: the gold table has no product of this origin: the frame has no column
\* Producto and merge_and_compare raises
CompareWithoutGold ==
    /\ call.fn = "compare_unit_prices.main"
    /\ proc.pc = "compare"
    /\ call.gold = << >>
    /\ proc' = [proc EXCEPT !.pc = "exit"]
    /\ ret' = Some(Raised("KeyError"))
    /\ UNCHANGED <<mainVars, call, disk>>

\* main: new_precios = _build_new(precios, cmp_pt, add_gold_only=True)
BuildNew ==
    /\ call.fn = "compare_unit_prices.main"
    /\ proc.pc = "build"
    /\ proc' = [proc EXCEPT !.pc = "report"]
    /\ ret' = Some(Returned(_build_new(call.ours, proc.cmp)))
    /\ UNCHANGED <<mainVars, call, disk>>

\* main: flagged = report[(report["Use_Gold"] == True) & report["Flag_Review"]]
WriteFlagged ==
    /\ call.fn = "compare_unit_prices.main"
    /\ proc.pc = "report"
    /\ proc' = [proc EXCEPT !.pc = "exit",
                            !.flagged = SelectSeq(proc.cmp, LAMBDA r : r.Use_Gold /\ r.Flag_Review)]
    /\ UNCHANGED <<mainVars, call, ret, disk>>

\* our list: entries with distinct stripped names (load_precios drops the
\* duplicates of the stripped text, not of the lowercased one)
OursNames == {Chars("Pan"), Chars("PAN")}
OursPrices == {NaN, 0, 10000, 40000}
\* the gold table: one row per product text; two gold products never share a
\* normalized name here
GoldNames == <<Chars("pan"), Chars("Ajo")>>
GoldPrices == {50, 10010, 10011, 12004, 200000000}
GoldCVs == {NaN, 500, 501}

InitCompare ==
    /\ MainIdle
    /\ disk = << >>
    /\ \E n \in 1..MaxOurs, m \in 0..MaxGold :
        \E names \in [1..n -> OursNames], prices \in [1..n -> OursPrices],
           gp \in [1..m -> GoldPrices], gcv \in [1..m -> GoldCVs] :
            /\ \A i, j \in 1..n : names[i] = names[j] => i = j
            /\ m <= Len(GoldNames)
            /\ call = [fn |-> "compare_unit_prices.main",
                       ours |-> [i \in 1..n |-> [Producto |-> names[i],
                                                 Precio_unitario |-> prices[i]]],
                       gold |-> [k \in 1..m |-> [Producto |-> GoldNames[k],
                                                 Precio_unitario |-> gp[k], CV |-> gcv[k]]]]
    /\ proc = [pc |-> "compare", cmp |-> << >>, flagged |-> << >>]
    /\ ret = None

NextCompare == MergeAndCompare \/ CompareWithoutGold \/ BuildNew \/ WriteFlagged

SpecCompare == InitCompare /\ [][NextCompare]_vars

\* the conditions the update of an entry is tied to, on one row of the
\* comparison: gold between 0.1 and 100000, coefficient of variation at most
\* 0.5 when there is one, more than 0.01 away from our price, and gold/ours
\* within [1/3, 3] when our price is not zero
UpdateAllowed(r) ==
    /\ r.Gold_Precio # NaN /\ r.Ours_Precio # NaN
    /\ r.Gold_Precio >= 100 /\ r.Gold_Precio <= 100000000
    /\ (r.CV # NaN => r.CV <= 500)
    /\ AbsDiff(r.Ours_Precio, r.Gold_Precio) > 10
    /\ (r.Ours_Precio # 0 => /\ 3 * r.Gold_Precio >= r.Ours_Precio
                             /\ r.Gold_Precio <= 3 * r.Ours_Precio)

\* the rows of the comparison made from our entry i
RowsOfEntry(i) == {r \in RowsOf(proc.cmp) : r.src = i}

\* C29 as stated: after the update, an existing entry whose price changed has
\* a comparison row that meets every condition of the update (so an entry not
\* selected keeps its price), and no row is both selected and flagged.
CexC29 ==
    (call.fn = "compare_unit_prices.main" /\ ret # None /\ ret[1].raised = "")
    => /\ \A i \in 1..Len(call.ours) :
            ret[1].value[i].Precio_unitario # call.ours[i].Precio_unitario
            => \E r \in RowsOfEntry(i) : r.Use_Gold /\ UpdateAllowed(r)
       /\ \A r \in RowsOf(proc.cmp) : ~(r.Use_Gold /\ r.Flag_Review)

=============================================================================
